---- MODULE Spec2Model ----
(***************************************************************************)
(* InterPrep AI: the message router (agents/coordinator.py), the interview *)
(* sessions of the Interviewer (agents/interviewer_agent.py) and the       *)
(* conversation state machine of the Telegram handlers (bot/handlers,      *)
(* bot/middleware).                                                        *)
(*                                                                         *)
(* Text is modelled character by character: a Python str is a sequence of  *)
(* one-character symbols.  ASCII characters stand for themselves, the      *)
(* Cyrillic letter with Latin transliteration x is written "cy_x" (lower   *)
(* case) or "CY_X" (upper case), the two emoji of the reply keyboards are  *)
(* "emoji_check" and "emoji_cross", a line break is "nl", a tab is "tab",  *)
(* the backquote of a Markdown fence is "backtick", and the typographic    *)
(* quotes are "laquo", "raquo", "ldquo", "rdquo", "lsquo", "rsquo".        *)
(* Confidence values are integers in hundredths (0.95 is 95).              *)
(***************************************************************************)
EXTENDS Integers, Sequences, FiniteSets, TLC

VARIABLES
    \* --- CoordinatorAgent.route, one call ---
    user_text,        \* the message text passed to route
    llm_response,     \* what self.llm.chat does in this call
    self_use_rag,     \* self.use_rag
    retrieve_context, \* what retrieve_context does in this call
    route_result,     \* the RouteResult returned, NoResult before the call
    \* --- InterviewerAgent ---
    active_sessions,  \* self.active_sessions: session id -> InterviewSession
    evaluate_calls,   \* session id -> evaluate_answer calls made since start_interview
    last_score,       \* the InterviewScore the last evaluate_answer returned
    ended,            \* the session ids end_interview was called on and not started since
    \* --- the bot: one user's conversation ---
    fsm_state,        \* the FSMContext state of the user
    fsm_data,         \* the FSMContext data of the user
    plans,            \* the learning plans persisted so far
    injected_planner, \* the object the handlers receive as planner
    last,             \* what the last turn did
    script,           \* progress of the conversation along PlanScript
    \* --- one call of an agent operation ---
    agent_call,       \* the operation called and what the LLM and the retrieval do in it
    history,          \* the history passed to route_with_history
    agent_result,     \* what the call returned or raised, NoAgentResult before the call
    \* --- the interview handlers: the conversations of the users ---
    storage,          \* the FSM storage: user -> the state and the data of the user
    turns,            \* the updates being handled: slot -> the handler and its locals
    next_session_id,  \* the number of rows of the table sessions
    interview_of,     \* user -> the id of the InterviewSession start_interview returned
    last_write        \* the last update_data(current_question=...) of an answer turn

routeVars == <<user_text, llm_response, self_use_rag, retrieve_context, route_result>>
interviewVars == <<active_sessions, evaluate_calls, last_score, ended>>
botVars == <<fsm_state, fsm_data, plans, injected_planner, last, script>>
agentVars == <<agent_call, history, agent_result>>
flowVars == <<storage, turns, next_session_id, interview_of, last_write>>
vars == <<routeVars, interviewVars, botVars, agentVars, flowVars>>

-----------------------------------------------------------------------------
(* str helpers *)

CasePairs ==
    <<
      <<"A", "a">>, <<"B", "b">>, <<"C", "c">>, <<"D", "d">>, <<"E", "e">>, <<"F", "f">>,
      <<"G", "g">>, <<"H", "h">>, <<"I", "i">>, <<"J", "j">>, <<"K", "k">>, <<"L", "l">>,
      <<"M", "m">>, <<"N", "n">>, <<"O", "o">>, <<"P", "p">>, <<"Q", "q">>, <<"R", "r">>,
      <<"S", "s">>, <<"T", "t">>, <<"U", "u">>, <<"V", "v">>, <<"W", "w">>, <<"X", "x">>,
      <<"Y", "y">>, <<"Z", "z">>, <<"CY_A", "cy_a">>, <<"CY_B", "cy_b">>, <<"CY_V", "cy_v">>, <<"CY_G", "cy_g">>,
      <<"CY_D", "cy_d">>, <<"CY_E", "cy_e">>, <<"CY_YO", "cy_yo">>, <<"CY_ZH", "cy_zh">>, <<"CY_Z", "cy_z">>, <<"CY_I", "cy_i">>,
      <<"CY_J", "cy_j">>, <<"CY_K", "cy_k">>, <<"CY_L", "cy_l">>, <<"CY_M", "cy_m">>, <<"CY_N", "cy_n">>, <<"CY_O", "cy_o">>,
      <<"CY_P", "cy_p">>, <<"CY_R", "cy_r">>, <<"CY_S", "cy_s">>, <<"CY_T", "cy_t">>, <<"CY_U", "cy_u">>, <<"CY_F", "cy_f">>,
      <<"CY_H", "cy_h">>, <<"CY_C", "cy_c">>, <<"CY_CH", "cy_ch">>, <<"CY_SH", "cy_sh">>, <<"CY_SCH", "cy_sch">>, <<"CY_HARD", "cy_hard">>,
      <<"CY_Y", "cy_y">>, <<"CY_SOFT", "cy_soft">>, <<"CY_EH", "cy_eh">>, <<"CY_YU", "cy_yu">>, <<"CY_YA", "cy_ya">>
    >>

PlanningTriggers ==
    <<
      <<"/", "p", "l", "a", "n">>,
      <<"cy_p", "cy_l", "cy_a", "cy_n">>,
      <<"cy_p", "cy_l", "cy_a", "cy_n", "cy_i", "cy_r", "cy_o", "cy_v", "cy_a", "cy_n", "cy_i", "cy_e">>,
      <<"l", "e", "a", "r", "n", "i", "n", "g", " ", "p", "l", "a", "n">>
    >>

keyword_mapping ==
    <<
      [agent |-> <<"i", "n", "t", "e", "r", "v", "i", "e", "w", "e", "r">>,
       keywords |-> <<
         <<"cy_i", "cy_n", "cy_t", "cy_e", "cy_r", "cy_v", "cy_soft", "cy_yu">>,
         <<"cy_o", "cy_p", "cy_r", "cy_o", "cy_s">>,
         <<"cy_v", "cy_o", "cy_p", "cy_r", "cy_o", "cy_s">>,
         <<"cy_z", "cy_a", "cy_d", "cy_a", "cy_j">>,
         <<"cy_p", "cy_r", "cy_o", "cy_v", "cy_e", "cy_d", "cy_i">>,
         <<"m", "o", "c", "k">>,
         <<"cy_s", "cy_o", "cy_b", "cy_e", "cy_s", "cy_e", "cy_d", "cy_o", "cy_v", "cy_a", "cy_n", "cy_i", "cy_e">>,
         <<"i", "n", "t", "e", "r", "v", "i", "e", "w">>,
         <<"cy_s", "cy_o", "cy_b", "cy_e", "cy_s", "cy_e", "cy_d", "cy_o", "cy_v", "cy_a", "cy_n", "cy_i">>,
         <<"cy_eh", "cy_k", "cy_z", "cy_a", "cy_m", "cy_e", "cy_n">>
       >>],
      [agent |-> <<"a", "s", "s", "e", "s", "s", "o", "r">>,
       keywords |-> <<
         <<"cy_o", "cy_c", "cy_e", "cy_n">>,
         <<"cy_t", "cy_e", "cy_s", "cy_t">>,
         <<"cy_p", "cy_r", "cy_o", "cy_v", "cy_e", "cy_r">>,
         <<"cy_u", "cy_r", "cy_o", "cy_v", "cy_e", "cy_n", "cy_soft">>,
         <<"cy_n", "cy_a", "cy_s", "cy_k", "cy_o", "cy_l", "cy_soft", "cy_k", "cy_o">>,
         <<"cy_d", "cy_i", "cy_a", "cy_g", "cy_n", "cy_o", "cy_s">>,
         <<"cy_s", "cy_i", "cy_l", "cy_soft", "cy_n", "cy_y", "cy_e">>,
         <<"cy_s", "cy_l", "cy_a", "cy_b", "cy_y", "cy_e">>,
         <<"cy_z", "cy_n", "cy_a", "cy_n", "cy_i", "cy_ya">>,
         <<"cy_s", "cy_k", "cy_i", "cy_l", "cy_l", "cy_y">>,
         <<"cy_k", "cy_o", "cy_m", "cy_p", "cy_e", "cy_t", "cy_e", "cy_n", "cy_c", "cy_i", "cy_i">>
       >>],
      [agent |-> <<"p", "l", "a", "n", "n", "e", "r">>,
       keywords |-> <<
         <<"cy_p", "cy_l", "cy_a", "cy_n">>,
         <<"r", "o", "a", "d", "m", "a", "p">>,
         <<"cy_p", "cy_r", "cy_o", "cy_g", "cy_r", "cy_a", "cy_m", "cy_m", "cy_a">>,
         <<"cy_r", "cy_a", "cy_s", "cy_p", "cy_i", "cy_s", "cy_a", "cy_n">>,
         <<"cy_r", "cy_e", "cy_k", "cy_o", "cy_m", "cy_e", "cy_n", "cy_d", "cy_a", "cy_c">>,
         <<"cy_i", "cy_z", "cy_u", "cy_ch">>,
         <<"cy_o", "cy_s", "cy_v", "cy_o">>,
         <<"cy_n", "cy_a", "cy_u", "cy_ch">>,
         <<"cy_p", "cy_o", "cy_d", "cy_g", "cy_o", "cy_t", "cy_o", "cy_v", "cy_k">>,
         <<"cy_o", "cy_b", "cy_u", "cy_ch", "cy_e", "cy_n">>,
         <<"cy_m", "cy_i", "cy_k", "cy_r", "cy_o", "cy_s", "cy_e", "cy_r", "cy_v", "cy_i", "cy_s">>,
         <<"cy_a", "cy_r", "cy_h", "cy_i", "cy_t", "cy_e", "cy_k", "cy_t", "cy_u", "cy_r">>,
         <<"d", "o", "c", "k", "e", "r">>,
         <<"k", "u", "b", "e", "r", "n", "e", "t", "e", "s">>,
         <<"cy_h", "cy_o", "cy_ch", "cy_u", " ", "cy_i", "cy_z", "cy_u", "cy_ch", "cy_a", "cy_t", "cy_soft">>,
         <<"cy_h", "cy_o", "cy_ch", "cy_u", " ", "cy_n", "cy_a", "cy_u", "cy_ch", "cy_i", "cy_t", "cy_soft", "cy_s", "cy_ya">>,
         <<"cy_h", "cy_o", "cy_ch", "cy_u", " ", "cy_o", "cy_s", "cy_v", "cy_o", "cy_i", "cy_t", "cy_soft">>
       >>],
      [agent |-> <<"r", "e", "v", "i", "e", "w", "e", "r">>,
       keywords |-> <<
         <<"cy_k", "cy_o", "cy_d">>,
         <<"cy_r", "cy_e", "cy_sh", "cy_e", "cy_n", "cy_i", "cy_e">>,
         <<"cy_z", "cy_a", "cy_d", "cy_a", "cy_ch", "cy_a">>,
         <<"cy_o", "cy_p", "cy_t", "cy_i", "cy_m", "cy_i", "cy_z">>,
         <<"cy_r", "cy_e", "cy_v", "cy_soft", "cy_yu">>,
         <<"cy_r", "cy_a", "cy_z", "cy_b", "cy_o", "cy_r">>,
         <<"cy_a", "cy_l", "cy_g", "cy_o", "cy_r", "cy_i", "cy_t", "cy_m">>,
         <<"cy_s", "cy_i", "cy_n", "cy_t", "cy_a", "cy_k", "cy_s", "cy_i", "cy_s">>,
         <<"cy_p", "cy_a", "cy_t", "cy_t", "cy_e", "cy_r", "cy_n">>,
         <<"cy_r", "cy_e", "cy_f", "cy_a", "cy_k", "cy_t", "cy_o", "cy_r", "cy_i", "cy_n", "cy_g">>
       >>],
      [agent |-> <<"h", "e", "l", "p", "e", "r">>,
       keywords |-> <<
         <<"cy_s", "cy_o", "cy_v", "cy_e", "cy_t">>,
         <<"cy_k", "cy_a", "cy_k">>,
         <<"cy_p", "cy_o", "cy_d", "cy_g", "cy_o", "cy_t", "cy_o", "cy_v">>,
         <<"cy_ch", "cy_t", "cy_o", " ", "cy_d", "cy_e", "cy_l", "cy_a", "cy_t", "cy_soft">>,
         <<"cy_p", "cy_o", "cy_m", "cy_o", "cy_sch", "cy_soft">>,
         <<"cy_o", "cy_b", "cy_hard", "cy_ya", "cy_s", "cy_n", "cy_i">>,
         <<"cy_r", "cy_a", "cy_s", "cy_s", "cy_k", "cy_a", "cy_zh", "cy_i">>,
         <<"cy_ch", "cy_t", "cy_o", " ", "cy_t", "cy_a", "cy_k", "cy_o", "cy_e">>,
         <<"cy_z", "cy_a", "cy_ch", "cy_e", "cy_m">>
       >>]
    >>


UpperChars == {CasePairs[i][1] : i \in DOMAIN CasePairs}
LowerChars == {CasePairs[i][2] : i \in DOMAIN CasePairs}

\* str.lower() and str.upper(), one character
LowerOf == [c \in UpperChars |-> CasePairs[CHOOSE i \in DOMAIN CasePairs : CasePairs[i][1] = c][2]]
UpperOf == [c \in LowerChars |-> CasePairs[CHOOSE i \in DOMAIN CasePairs : CasePairs[i][2] = c][1]]

lowerChar(c) == IF c \in UpperChars THEN LowerOf[c] ELSE c

upperChar(c) == IF c \in LowerChars THEN UpperOf[c] ELSE c

lower(s) == [i \in 1..Len(s) |-> lowerChar(s[i])]
upper(s) == [i \in 1..Len(s) |-> upperChar(s[i])]

\* s.startswith(p)
startswith(s, p) == Len(p) <= Len(s) /\ SubSeq(s, 1, Len(p)) = p

\* s.endswith(p)
endswith(s, p) == Len(p) <= Len(s) /\ SubSeq(s, Len(s) - Len(p) + 1, Len(s)) = p

\* p occurs in s at position i
occursAt(s, p, i) == i >= 1 /\ i + Len(p) - 1 <= Len(s) /\ SubSeq(s, i, i + Len(p) - 1) = p

\* p in s
contains(s, p) == \E i \in 1..(Len(s) - Len(p) + 1) : occursAt(s, p, i)

\* s.find(p, from): the first position >= from where p occurs, 0 when there is none
find(s, p, from) ==
    LET hits == {i \in from..(Len(s) - Len(p) + 1) : occursAt(s, p, i)}
    IN  IF hits = {} THEN 0 ELSE CHOOSE i \in hits : \A j \in hits : i <= j

\* s.rfind(p): the last position where p occurs, 0 when there is none
rfind(s, p) ==
    LET hits == {i \in 1..(Len(s) - Len(p) + 1) : occursAt(s, p, i)}
    IN  IF hits = {} THEN 0 ELSE CHOOSE i \in hits : \A j \in hits : i >= j

\* the characters str.strip() removes, and the ones the regex class \s matches
Whitespace == {" ", "nl", "tab"}

\* the characters of the regex class [\x00-\x1F\x7F]
ControlChars == {"nl", "tab"}

\* s.strip()
strip(s) ==
    LET keep == {i \in 1..Len(s) : s[i] \notin Whitespace}
    IN  IF keep = {} THEN <<>>
        ELSE SubSeq(s, CHOOSE i \in keep : \A j \in keep : i <= j,
                       CHOOSE i \in keep : \A j \in keep : i >= j)

\* s.strip(chars)
stripChars(s, chars) ==
    LET keep == {i \in 1..Len(s) : s[i] \notin chars}
    IN  IF keep = {} THEN <<>>
        ELSE SubSeq(s, CHOOSE i \in keep : \A j \in keep : i <= j,
                       CHOOSE i \in keep : \A j \in keep : i >= j)

-----------------------------------------------------------------------------
(* json.loads, on the subset of JSON without string escapes and exponents:  *)
(* objects, arrays, strings, numbers, true, false and null.  A parsed value *)
(* is summarised by its kind, its characters (a string) or its value in     *)
(* hundredths (a number); the members of an object are kept as a sequence   *)
(* of pairs, a later pair with the same key winning as in a Python dict,    *)
(* the elements of an array as pairs without key; a pair holds the members  *)
(* or elements of its own value as well.                                    *)

DQ == "\""

DigitChars == <<"0", "1", "2", "3", "4", "5", "6", "7", "8", "9">>
Digits == {DigitChars[i] : i \in DOMAIN DigitChars}
digitVal(c) == (CHOOSE i \in DOMAIN DigitChars : DigitChars[i] = c) - 1

StrVal(cs) == [k |-> "str", s |-> cs, n |-> 0]
NumVal(n) == [k |-> "num", s |-> <<>>, n |-> n]
ObjVal == [k |-> "obj", s |-> <<>>, n |-> 0]
ArrVal == [k |-> "arr", s |-> <<>>, n |-> 0]
LitVal(name) == [k |-> name, s |-> <<>>, n |-> 0]

ParseFail == [ok |-> FALSE, next |-> 0, val |-> LitVal("null"), pairs |-> <<>>]
ParseOk(next, val, pairs) == [ok |-> TRUE, next |-> next, val |-> val, pairs |-> pairs]

\* the first position >= i that holds no whitespace (Len(s) + 1 when there is none)
skipWs(s, i) ==
    LET rest == {j \in i..Len(s) : s[j] \notin Whitespace}
    IN  IF rest = {} THEN Len(s) + 1 ELSE CHOOSE j \in rest : \A m \in rest : j <= m

\* the last position of the longest run of characters of cs that starts at i (i - 1: no run)
runEnd(s, i, cs) ==
    LET stops == {j \in i..Len(s) : s[j] \notin cs}
    IN  IF stops = {} THEN Len(s) ELSE (CHOOSE j \in stops : \A m \in stops : j <= m) - 1

RECURSIVE digitsVal(_)
digitsVal(ds) ==
    IF ds = <<>> THEN 0
    ELSE 10 * digitsVal(SubSeq(ds, 1, Len(ds) - 1)) + digitVal(ds[Len(ds)])

\* the value in hundredths of the digits after a decimal point
fractionVal(ds) ==
    IF ds = <<>> THEN 0
    ELSE IF Len(ds) = 1 THEN 10 * digitVal(ds[1])
    ELSE 10 * digitVal(ds[1]) + digitVal(ds[2])

\* a string literal at i: the characters up to the next double quote; a control
\* character inside the literal is an error (json.loads is strict)
parseString(s, i) ==
    IF i > Len(s) \/ s[i] # DQ THEN ParseFail
    ELSE LET j == find(s, <<DQ>>, i + 1)
         IN  IF j = 0 THEN ParseFail
             ELSE IF \E m \in (i + 1)..(j - 1) : s[m] \in ControlChars THEN ParseFail
             ELSE ParseOk(j + 1, StrVal(SubSeq(s, i + 1, j - 1)), <<>>)

\* a number at i: -?(0|[1-9][0-9]*)(\.[0-9]+)?
parseNumber(s, i) ==
    LET neg == s[i] = "-"
        a == IF neg THEN i + 1 ELSE i
    IN  IF a > Len(s) \/ s[a] \notin Digits THEN ParseFail
        ELSE LET intEnd == IF s[a] = "0" THEN a ELSE runEnd(s, a, Digits)
                 hasFrac == /\ intEnd + 2 <= Len(s)
                            /\ s[intEnd + 1] = "."
                            /\ s[intEnd + 2] \in Digits
                 fracEnd == IF hasFrac THEN runEnd(s, intEnd + 2, Digits) ELSE intEnd
                 whole == digitsVal(SubSeq(s, a, intEnd))
                 frac == IF hasFrac THEN fractionVal(SubSeq(s, intEnd + 2, fracEnd)) ELSE 0
                 v == 100 * whole + frac
             IN  ParseOk(fracEnd + 1, NumVal(IF neg THEN 0 - v ELSE v), <<>>)

Literals == << <<"t", "r", "u", "e">>, <<"f", "a", "l", "s", "e">>, <<"n", "u", "l", "l">> >>
LiteralNames == <<"true", "false", "null">>

parseLiteral(s, i) ==
    LET hits == {n \in DOMAIN Literals : occursAt(s, Literals[n], i)}
    IN  IF hits = {} THEN ParseFail
        ELSE LET n == CHOOSE n \in hits : TRUE
             IN  ParseOk(i + Len(Literals[n]), LitVal(LiteralNames[n]), <<>>)

RECURSIVE parseValue(_, _), parseMembers(_, _, _), parseElements(_, _)

parseValue(s, i0) ==
    LET i == skipWs(s, i0)
    IN  IF i > Len(s) THEN ParseFail
        ELSE IF s[i] = DQ THEN parseString(s, i)
        ELSE IF s[i] = "{"
             THEN LET j == skipWs(s, i + 1)
                  IN  IF j <= Len(s) /\ s[j] = "}" THEN ParseOk(j + 1, ObjVal, <<>>)
                      ELSE parseMembers(s, j, <<>>)
        ELSE IF s[i] = "["
             THEN LET j == skipWs(s, i + 1)
                  IN  IF j <= Len(s) /\ s[j] = "]" THEN ParseOk(j + 1, ArrVal, <<>>)
                      ELSE parseElements(s, j)
        ELSE IF s[i] \in Digits \cup {"-"} THEN parseNumber(s, i)
        ELSE parseLiteral(s, i)

\* the members of an object from the key at i on; acc holds the pairs read so far
parseMembers(s, i, acc) ==
    LET key == parseString(s, i)
    IN  IF ~key.ok THEN ParseFail
        ELSE LET c == skipWs(s, key.next)
             IN  IF c > Len(s) \/ s[c] # ":" THEN ParseFail
                 ELSE LET v == parseValue(s, c + 1)
                      IN  IF ~v.ok THEN ParseFail
                          ELSE LET d == skipWs(s, v.next)
                                   got == Append(acc, [key |-> key.val.s, val |-> v.val,
                                                   pairs |-> v.pairs])
                               IN  IF d > Len(s) THEN ParseFail
                                   ELSE IF s[d] = "}" THEN ParseOk(d + 1, ObjVal, got)
                                   ELSE IF s[d] = ","
                                        THEN parseMembers(s, skipWs(s, d + 1), got)
                                   ELSE ParseFail

\* an element in front of the elements that follow it
elementsAfter(element, rest) ==
    IF rest.ok THEN ParseOk(rest.next, ArrVal, <<element>> \o rest.pairs) ELSE ParseFail

\* the elements of an array from the value at i on (an element is a pair without key)
parseElements(s, i) ==
    LET v == parseValue(s, i)
    IN  IF ~v.ok THEN ParseFail
        ELSE LET d == skipWs(s, v.next)
                 element == [key |-> <<>>, val |-> v.val, pairs |-> v.pairs]
             IN  IF d > Len(s) THEN ParseFail
                 ELSE IF s[d] = "]" THEN ParseOk(d + 1, ArrVal, <<element>>)
                 ELSE IF s[d] = ","
                      THEN elementsAfter(element, parseElements(s, skipWs(s, d + 1)))
                 ELSE ParseFail

\* json.loads(text): ok is FALSE where Python raises json.JSONDecodeError
json_loads(s) ==
    LET r == parseValue(s, 1)
    IN  IF r.ok /\ skipWs(s, r.next) > Len(s) THEN r ELSE ParseFail

\* dict access on the pairs of a parsed object
dictHas(pairs, key) == \E i \in DOMAIN pairs : pairs[i].key = key
\* the members (of an object) or the elements (of an array) of the value of a key
dictItems(pairs, key) ==
    pairs[CHOOSE i \in DOMAIN pairs :
            pairs[i].key = key /\ \A j \in DOMAIN pairs : pairs[j].key = key => j <= i].pairs
dictGet(pairs, key) ==
    pairs[CHOOSE i \in DOMAIN pairs :
            pairs[i].key = key /\ \A j \in DOMAIN pairs : pairs[j].key = key => j <= i].val

-----------------------------------------------------------------------------
(* CoordinatorAgent: cleaning and repair of the model text *)

Fence == <<"backtick", "backtick", "backtick">>
FenceJson == <<"backtick", "backtick", "backtick", "j", "s", "o", "n">>

\* s.split(sep)[1], for s that contains sep
splitSecond(s, sep) ==
    LET i == find(s, sep, 1)
        start == i + Len(sep)
        j == find(s, sep, start)
    IN  SubSeq(s, start, IF j = 0 THEN Len(s) ELSE j - 1)

\* s.split(sep)[0]
splitFirst(s, sep) ==
    LET i == find(s, sep, 1)
    IN  IF i = 0 THEN s ELSE SubSeq(s, 1, i - 1)

\* s.count(sep) >= 2 (occurrences that do not overlap)
countAtLeastTwo(s, sep) ==
    LET i == find(s, sep, 1)
    IN  i # 0 /\ find(s, sep, i + Len(sep)) # 0

\* re.search(r'\{.*\}', text, re.DOTALL): from the first "{" to the last "}"
braceMatch(s) ==
    LET i == find(s, <<"{">>, 1)
        j == rfind(s, <<"}">>)
    IN  IF i # 0 /\ j > i THEN [found |-> TRUE, group |-> SubSeq(s, i, j)]
        ELSE [found |-> FALSE, group |-> <<>>]

_clean_response(text) ==
    LET unfenced ==
            IF contains(text, FenceJson)
            THEN strip(splitFirst(splitSecond(text, FenceJson), Fence))
            ELSE IF contains(text, Fence)
            THEN IF countAtLeastTwo(text, Fence)
                 THEN strip(splitFirst(splitSecond(text, Fence), Fence))
                 ELSE strip(stripChars(text, {"backtick"}))
            ELSE text
        m == braceMatch(unfenced)
    IN  strip(IF m.found THEN m.group ELSE unfenced)

\* the replacements table of _fix_json_problems
replaceQuote(c) ==
    IF c \in {"laquo", "raquo", "ldquo", "rdquo"} THEN DQ
    ELSE IF c \in {"lsquo", "rsquo"} THEN "'"
    ELSE c

\* the characters of s at the positions of keep, in order
subSeqAt(s, keep) ==
    [n \in 1..Cardinality(keep) |->
        s[CHOOSE k \in keep : Cardinality({j \in keep : j <= k}) = n]]

\* re.sub(r',\s*X', 'X', s) for the closing character X: every comma that only
\* whitespace separates from an X goes, with that whitespace
subTrailingComma(s, closer) ==
    LET commas == {i \in 1..Len(s) :
                      /\ s[i] = ","
                      /\ skipWs(s, i + 1) <= Len(s)
                      /\ s[skipWs(s, i + 1)] = closer}
        dropped == {k \in 1..Len(s) : \E i \in commas : i <= k /\ k < skipWs(s, i + 1)}
    IN  subSeqAt(s, (1..Len(s)) \ dropped)

_fix_json_problems(text) ==
    LET quoted == [i \in 1..Len(text) |-> replaceQuote(text[i])]
        visible == SelectSeq(quoted, LAMBDA c : c \notin ControlChars)
    IN  subTrailingComma(subTrailingComma(visible, "}"), "]")

\* float(group) for a group matched by [0-9.]+ : ok is FALSE where Python raises ValueError
floatOf(group) ==
    LET dots == {i \in DOMAIN group : group[i] = "."}
    IN  IF Cardinality(dots) > 1 \/ Cardinality(dots) = Len(group)
        THEN [ok |-> FALSE, n |-> 0]
        ELSE IF dots = {} THEN [ok |-> TRUE, n |-> 100 * digitsVal(group)]
        ELSE LET d == CHOOSE i \in dots : TRUE
             IN  [ok |-> TRUE,
                  n |-> 100 * digitsVal(SubSeq(group, 1, d - 1))
                        + fractionVal(SubSeq(group, d + 1, Len(group)))]

\* re.search(r'"<name>"\s*:\s*"([^"]+)"', text, re.IGNORECASE): the first match's group
stringFieldMatch(text, name) ==
    LET label == <<DQ>> \o name \o <<DQ>>
        low == lower(text)
        groupAt(i) ==
            LET c == skipWs(text, i + Len(label))
                q == skipWs(text, c + 1)
                e == find(text, <<DQ>>, q + 1)
            IN  IF /\ occursAt(low, label, i)
                   /\ c <= Len(text) /\ text[c] = ":"
                   /\ q <= Len(text) /\ text[q] = DQ
                   /\ e > q + 1
                THEN [found |-> TRUE, group |-> SubSeq(text, q + 1, e - 1)]
                ELSE [found |-> FALSE, group |-> <<>>]
        hits == {i \in 1..Len(text) : groupAt(i).found}
    IN  IF hits = {} THEN [found |-> FALSE, group |-> <<>>]
        ELSE groupAt(CHOOSE i \in hits : \A j \in hits : i <= j)

\* re.search(r'"confidence"\s*:\s*([0-9.]+)', text, re.IGNORECASE): the first match's group
numberFieldMatch(text, name) ==
    LET label == <<DQ>> \o name \o <<DQ>>
        low == lower(text)
        groupAt(i) ==
            LET c == skipWs(text, i + Len(label))
                q == skipWs(text, c + 1)
                e == runEnd(text, q, Digits \cup {"."})
            IN  IF /\ occursAt(low, label, i)
                   /\ c <= Len(text) /\ text[c] = ":"
                   /\ e >= q
                THEN [found |-> TRUE, group |-> SubSeq(text, q, e)]
                ELSE [found |-> FALSE, group |-> <<>>]
        hits == {i \in 1..Len(text) : groupAt(i).found}
    IN  IF hits = {} THEN [found |-> FALSE, group |-> <<>>]
        ELSE groupAt(CHOOSE i \in hits : \A j \in hits : i <= j)

KeyAgent == <<"a", "g", "e", "n", "t">>
KeyContext == <<"c", "o", "n", "t", "e", "x", "t">>
KeyConfidence == <<"c", "o", "n", "f", "i", "d", "e", "n", "c", "e">>
KeyMetadata == <<"m", "e", "t", "a", "d", "a", "t", "a">>
KeySuggestedTopics ==
    <<"s", "u", "g", "g", "e", "s", "t", "e", "d", "_", "t", "o", "p", "i", "c", "s">>

\* _recover_json(text): the dict it returns, as pairs
_recover_json(text) ==
    LET m == braceMatch(text)
        parsed == json_loads(m.group)
        agent == stringFieldMatch(text, KeyAgent)
        context == stringFieldMatch(text, KeyContext)
        confidence == numberFieldMatch(text, KeyConfidence)
        value == floatOf(confidence.group)
    IN  IF m.found /\ parsed.ok THEN parsed.pairs
        ELSE (IF agent.found THEN <<[key |-> KeyAgent, val |-> StrVal(agent.group)]>> ELSE <<>>)
          \o (IF context.found
              THEN <<[key |-> KeyContext, val |-> StrVal(context.group)]>> ELSE <<>>)
          \o (IF confidence.found
              THEN <<[key |-> KeyConfidence,
                      val |-> NumVal(IF value.ok THEN value.n ELSE 50)]>>
              ELSE <<>>)
          \o <<[key |-> KeyMetadata, val |-> ObjVal]>>

-----------------------------------------------------------------------------
(* CoordinatorAgent: the agent catalogue, retrieval and routing *)

INTERVIEWER ==
    <<"I", "N", "T", "E", "R", "V", "I", "E", "W", "E", "R">>
ASSESSOR ==
    <<"A", "S", "S", "E", "S", "S", "O", "R">>
PLANNER ==
    <<"P", "L", "A", "N", "N", "E", "R">>
REVIEWER ==
    <<"R", "E", "V", "I", "E", "W", "E", "R">>
ASK_CLARIFICATION ==
    <<"A", "S", "K", "_", "C", "L", "A", "R", "I", "F", "I", "C", "A", "T", "I", "O", "N">>
tech_keywords ==
    <<
      <<"p", "y", "t", "h", "o", "n">>,
      <<"j", "a", "v", "a">>,
      <<"j", "a", "v", "a", "s", "c", "r", "i", "p", "t">>,
      <<"cy_a", "cy_l", "cy_g", "cy_o", "cy_r", "cy_i", "cy_t", "cy_m">>,
      <<"cy_b", "cy_a", "cy_z", "cy_a", " ", "cy_d", "cy_a", "cy_n", "cy_n", "cy_y", "cy_h">>,
      <<"s", "q", "l">>,
      <<"cy_o", "cy_o", "cy_p">>,
      <<"cy_i", "cy_n", "cy_t", "cy_e", "cy_r", "cy_v", "cy_soft", "cy_yu">>,
      <<"cy_s", "cy_o", "cy_b", "cy_e", "cy_s", "cy_e", "cy_d", "cy_o", "cy_v", "cy_a", "cy_n", "cy_i", "cy_e">>,
      <<"cy_o", "cy_c", "cy_e", "cy_n", "cy_k", "cy_a">>,
      <<"cy_p", "cy_l", "cy_a", "cy_n">>,
      <<"cy_k", "cy_o", "cy_d">>,
      <<"j", "u", "n", "i", "o", "r">>,
      <<"m", "i", "d", "d", "l", "e">>,
      <<"s", "e", "n", "i", "o", "r">>,
      <<"b", "a", "c", "k", "e", "n", "d">>,
      <<"f", "r", "o", "n", "t", "e", "n", "d">>,
      <<"d", "e", "v", "o", "p", "s">>,
      <<"d", "o", "c", "k", "e", "r">>,
      <<"k", "u", "b", "e", "r", "n", "e", "t", "e", "s">>,
      <<"cy_m", "cy_i", "cy_k", "cy_r", "cy_o", "cy_s", "cy_e", "cy_r", "cy_v", "cy_i", "cy_s">>,
      <<"a", "p", "i">>,
      <<"r", "e", "s", "t">>,
      <<"g", "r", "a", "p", "h", "q", "l">>
    >>
ContextWord ==
    <<"CY_K", "cy_o", "cy_n", "cy_t", "cy_e", "cy_k", "cy_s", "cy_t">>
ContextPrefix ==
    <<"emoji_books", " ", "CY_K", "cy_o", "cy_n", "cy_t", "cy_e", "cy_k", "cy_s", "cy_t", " ">>
NoRelevantContext ==
    <<"CY_N", "cy_e", "cy_t", " ", "cy_r", "cy_e", "cy_l", "cy_e", "cy_v", "cy_a", "cy_n",
      "cy_t", "cy_n", "cy_o", "cy_g", "cy_o", " ", "cy_k", "cy_o", "cy_n", "cy_t", "cy_e",
      "cy_k", "cy_s", "cy_t", "cy_a", " ", "cy_v", " ", "cy_b", "cy_a", "cy_z", "cy_e", " ",
      "cy_z", "cy_n", "cy_a", "cy_n", "cy_i", "cy_j", ".">>

\* _extract_keywords(text): the tech keywords found in the lower-cased text, at most 5
_extract_keywords(text) ==
    LET found == SelectSeq(tech_keywords, LAMBDA keyword : contains(lower(text), keyword))
    IN  SubSeq(found, 1, IF Len(found) < 5 THEN Len(found) ELSE 5)

\* Chunk limit of the formatted context: chunk[:200]
ChunkPrefixLen == 200

RECURSIVE formatChunks(_, _)
\* "\n".join(f"Контекст {i + 1}: {chunk[:200]}..." for i, chunk in enumerate(chunks)), from chunk i on
formatChunks(chunks, i) ==
    IF i > Len(chunks) THEN <<>>
    ELSE ContextPrefix \o <<DigitChars[i + 1]>> \o <<":", " ">>
         \o SubSeq(chunks[i], 1, IF Len(chunks[i]) < ChunkPrefixLen
                                 THEN Len(chunks[i]) ELSE ChunkPrefixLen)
         \o <<".", ".", ".">>
         \o (IF i < Len(chunks) THEN <<"nl">> ELSE <<>>)
         \o formatChunks(chunks, i + 1)

RECURSIVE repeatChunks(_, _)
\* context_chunks.extend(keyword_context), once per keyword
repeatChunks(chunks, times) ==
    IF times = 0 THEN <<>> ELSE chunks \o repeatChunks(chunks, times - 1)

\* _get_rag_context_for_routing(user_text).  retrieval is what retrieve_context does in
\* this call: the snippets it returns for the message (by_text) and for a keyword
\* (by_keyword), or a failure while the chunks are handled (fails).
_get_rag_context_for_routing(text, use_rag, retrieval) ==
    IF ~use_rag THEN <<>>
    ELSE IF retrieval.fails THEN <<>>
    ELSE LET keywords == _extract_keywords(text)
             tries == IF Len(keywords) < 3 THEN Len(keywords) ELSE 3
             context_chunks ==
                 IF retrieval.by_text # <<>> THEN retrieval.by_text
                 ELSE repeatChunks(retrieval.by_keyword, tries)
         IN  IF context_chunks # <<>> THEN formatChunks(context_chunks, 1)
             ELSE NoRelevantContext

\* context_chunks of _get_rag_context_for_routing: the snippets retrieve_context
\* returned for the message, else for its first three keywords
routingChunks(text, retrieval) ==
    IF retrieval.by_text # <<>> THEN retrieval.by_text
    ELSE repeatChunks(retrieval.by_keyword,
                      IF Len(_extract_keywords(text)) < 3 THEN Len(_extract_keywords(text))
                      ELSE 3)

_normalize_agent_name(agent_name) ==
    LET name == upper(agent_name)
    IN  IF contains(name, <<"A", "S", "S", "E", "S", "S">>) THEN ASSESSOR
        ELSE IF contains(name, <<"I", "N", "T", "E", "R", "V", "I", "E", "W">>) THEN INTERVIEWER
        ELSE IF contains(name, <<"P", "L", "A", "N">>) THEN PLANNER
        ELSE IF contains(name, <<"R", "E", "V", "I", "E", "W">>) THEN REVIEWER
        ELSE name

\* _fallback_agent_detection(user_text): the first entry of keyword_mapping one of whose
\* keywords occurs in the lower-cased text, in upper case; else ASK_CLARIFICATION
_fallback_agent_detection(text) ==
    LET text_lower == lower(text)
        hits == {a \in DOMAIN keyword_mapping :
                    \E k \in DOMAIN keyword_mapping[a].keywords :
                        contains(text_lower, keyword_mapping[a].keywords[k])}
    IN  IF hits = {} THEN ASK_CLARIFICATION
        ELSE upper(keyword_mapping[CHOOSE a \in hits : \A b \in hits : a <= b].agent)

\* the fixed confidences of route, in hundredths
ShortcutConfidence == 95
DefaultConfidence == 50
RecoveredDefaultConfidence == 30
FallbackConfidence == 30
ErrorConfidence == 10

\* A RouteResult, with the return statement of route that built it (path) and the
\* number of self.llm.chat calls made on the way (llm_calls)
RouteResult(agent, confidence, rag_context_used, path, llm_calls) ==
    [agent |-> agent, confidence |-> confidence, rag_context_used |-> rag_context_used,
     path |-> path, llm_calls |-> llm_calls]

\* min(max(x, 0.0), 1.0)
clamp(x) == IF x < 0 THEN 0 ELSE IF x > 100 THEN 100 ELSE x

\* data.get("confidence", default) as the float it is used as: ok is FALSE where the
\* comparison with a float or the validation of the float field raises
confidenceOf(pairs, default) ==
    IF ~dictHas(pairs, KeyConfidence) THEN [ok |-> TRUE, n |-> default]
    ELSE LET v == dictGet(pairs, KeyConfidence)
         IN  IF v.k = "num" THEN [ok |-> TRUE, n |-> v.n]
             ELSE IF v.k = "true" THEN [ok |-> TRUE, n |-> 100]
             ELSE IF v.k = "false" THEN [ok |-> TRUE, n |-> 0]
             ELSE [ok |-> FALSE, n |-> 0]

\* data.get("agent", "INTERVIEWER").upper(): ok is FALSE where the value is no str
agentOf(pairs) ==
    IF ~dictHas(pairs, KeyAgent) THEN [ok |-> TRUE, s |-> INTERVIEWER]
    ELSE LET v == dictGet(pairs, KeyAgent)
         IN  IF v.k = "str" THEN [ok |-> TRUE, s |-> upper(v.s)] ELSE [ok |-> FALSE, s |-> <<>>]

\* the validation of the other RouteResult fields (context: str, metadata: dict,
\* suggested_topics: Optional[list]); numbers are coerced to str
fieldsValid(pairs) ==
    /\ dictHas(pairs, KeyContext) => dictGet(pairs, KeyContext).k \in {"str", "num"}
    /\ dictHas(pairs, KeyMetadata) => dictGet(pairs, KeyMetadata).k = "obj"
    /\ dictHas(pairs, KeySuggestedTopics) =>
           dictGet(pairs, KeySuggestedTopics).k \in {"arr", "null"}

\* the clamp of the direct return statement (coordinator.py:239)
directConfidence(x) == clamp(x)

\* the confidence of the return statement after _recover_json (coordinator.py:258)
recoveredConfidence(x) == x

\* the short-circuit test with only the /plan command as trigger
isPlanningCommandOnly(text) ==
    startswith(lower(text), PlanningTriggers[1])

\* the planning short-circuit test (coordinator.py:204)
isPlanningRequest(text) ==
    \E t \in DOMAIN PlanningTriggers : startswith(lower(text), PlanningTriggers[t])

\* rag_context_used of the results built after retrieval (coordinator.py:190)
ragContextUsed(use_rag, rag_context) ==
    use_rag /\ rag_context # <<>> /\ contains(rag_context, ContextWord)

\* the except Exception of route (coordinator.py:274-283)
routeError(rag_used) == RouteResult(INTERVIEWER, ErrorConfidence, rag_used, "error", 1)

\* the result built from the parsed answer (coordinator.py:229-247); what raises here
\* (an answer that is no object, a field of the wrong type) is no JSONDecodeError and
\* reaches the except Exception
routeDirect(parsed, rag_used) ==
    LET agent == agentOf(parsed.pairs)
        confidence == confidenceOf(parsed.pairs, DefaultConfidence)
    IN  IF parsed.val.k = "obj" /\ agent.ok /\ confidence.ok /\ fieldsValid(parsed.pairs)
        THEN RouteResult(_normalize_agent_name(agent.s), directConfidence(confidence.n),
                         rag_used, "direct", 1)
        ELSE routeError(rag_used)

\* the except json.JSONDecodeError of route (coordinator.py:249-272): the result built
\* from the recovered fields, the keyword classifier where building it raises
routeRecovered(text, data, rag_used) ==
    LET agent == agentOf(data)
        confidence == confidenceOf(data, RecoveredDefaultConfidence)
    IN  IF agent.ok /\ confidence.ok /\ fieldsValid(data)
        THEN RouteResult(_normalize_agent_name(agent.s), recoveredConfidence(confidence.n),
                         rag_used, "recovered", 1)
        ELSE RouteResult(_fallback_agent_detection(text), FallbackConfidence,
                         rag_used, "fallback", 1)

\* json.loads of the cleaned answer and the two ways on from it (coordinator.py:228-272)
routeParsed(text, cleaned, parsed, rag_used) ==
    IF parsed.ok THEN routeDirect(parsed, rag_used)
    ELSE routeRecovered(text, _recover_json(cleaned), rag_used)

\* the answer cleaned (coordinator.py:217-226)
routeCleaned(text, cleaned, rag_used) ==
    routeParsed(text, cleaned, json_loads(cleaned), rag_used)

\* the try block of route (coordinator.py:215-283)
routeModel(text, llm, rag_used) ==
    IF llm.raises THEN routeError(rag_used)
    ELSE routeCleaned(text, _fix_json_problems(_clean_response(strip(llm.content))), rag_used)

\* the cleaned answer is no JSON and _recover_json finds no agent in it
noAgentInCleaned(cleaned) ==
    ~json_loads(cleaned).ok /\ ~dictHas(_recover_json(cleaned), KeyAgent)

\* the same of the answer as self.llm.chat returned it
noAgentRecoverable(content) ==
    noAgentInCleaned(_fix_json_problems(_clean_response(strip(content))))

\* route(user_text, user_context).  llm is what self.llm.chat does when called: it
\* raises, or returns a response with the given content.
route(text, llm, use_rag, retrieval) ==
    IF isPlanningRequest(text)
    THEN RouteResult(PLANNER, ShortcutConfidence, FALSE, "shortcut", 0)
    ELSE routeModel(text, llm,
                    ragContextUsed(use_rag,
                                   _get_rag_context_for_routing(text, use_rag, retrieval)))

-----------------------------------------------------------------------------
(* The inputs: message texts, model texts, retrieval outcomes *)

\* Message texts: commands, the replies of the plan dialogue (with the two buttons of
\* its save keyboard, handlers/__init__.py:221-222), free text with and without keywords
Msg ==
    [plan |->
        <<"/", "p", "l", "a", "n">>,
     planText |->
        <<"CY_P", "cy_l", "cy_a", "cy_n", " ", "cy_o", "cy_b", "cy_u", "cy_ch", "cy_e", "cy_n",
          "cy_i", "cy_ya">>,
     learningPlan |->
        <<"L", "e", "a", "r", "n", "i", "n", "g", " ", "p", "l", "a", "n", ",", " ", "S", "Q",
          "L">>,
     interviewText |->
        <<"cy_h", "cy_o", "cy_ch", "cy_u", " ", "cy_p", "cy_r", "cy_o", "cy_j", "cy_t", "cy_i",
          " ", "cy_s", "cy_o", "cy_b", "cy_e", "cy_s", "cy_e", "cy_d", "cy_o", "cy_v", "cy_a",
          "cy_n", "cy_i", "cy_e", " ", "cy_p", "cy_o", " ", "P", "y", "t", "h", "o", "n">>,
     unknown |->
        <<"b", "l", "u", "h", "b", "l", "u", "h", " ", "x", "y", "z">>,
     topic |->
        <<"cy_a", "cy_l", "cy_g", "cy_o", "cy_r", "cy_i", "cy_t", "cy_m", "cy_y", " ", "cy_i",
          " ", "cy_s", "cy_t", "cy_r", "cy_u", "cy_k", "cy_t", "cy_u", "cy_r", "cy_y", " ",
          "cy_d", "cy_a", "cy_n", "cy_n", "cy_y", "cy_h">>,
     level |->
        <<"cy_s", "cy_r", "cy_e", "cy_d", "cy_n", "cy_i", "cy_j">>,
     hours |->
        <<"5", " ", "cy_ch", "cy_a", "cy_s", "cy_o", "cy_v", " ", "cy_v", " ", "cy_n", "cy_e",
          "cy_d", "cy_e", "cy_l", "cy_yu">>,
     yes |->
        <<"cy_d", "cy_a">>,
     yesButton |->
        <<"emoji_check", " ", "CY_D", "cy_a", ",", " ", "cy_s", "cy_o", "cy_h", "cy_r", "cy_a",
          "cy_n", "cy_i", "cy_t", "cy_soft", " ", "cy_p", "cy_l", "cy_a", "cy_n">>,
     noButton |->
        <<"emoji_cross", " ", "CY_N", "cy_e", "cy_t", ",", " ", "cy_n", "cy_e", " ", "cy_s",
          "cy_o", "cy_h", "cy_r", "cy_a", "cy_n", "cy_ya", "cy_t", "cy_soft">>,
     no |->
        <<"cy_n", "cy_e", "cy_t">>,
     maybe |->
        <<"cy_m", "cy_o", "cy_zh", "cy_e", "cy_t", " ", "cy_b", "cy_y", "cy_t", "cy_soft">>,
     review |->
        <<"/", "r", "e", "v", "i", "e", "w">>,
     interview |->
        <<"/", "i", "n", "t", "e", "r", "v", "i", "e", "w">>,
     assess |->
        <<"/", "a", "s", "s", "e", "s", "s">>,
     progress |->
        <<"/", "p", "r", "o", "g", "r", "e", "s", "s">>]

\* Contents of the model's reply: JSON as asked for, a confidence outside [0, 1], a
\* Markdown fence with trailing commas, JSON broken by a missing comma, prose, a JSON
\* array, typographic quotes, a malformed number, an object with the agent only
LLMText ==
    [valid |->
        <<"{", "\"", "a", "g", "e", "n", "t", "\"", ":", " ", "\"", "I", "N", "T", "E", "R",
          "V", "I", "E", "W", "E", "R", "\"", ",", " ", "\"", "c", "o", "n", "t", "e", "x",
          "t", "\"", ":", " ", "\"", "m", "o", "c", "k", "\"", ",", " ", "\"", "c", "o", "n",
          "f", "i", "d", "e", "n", "c", "e", "\"", ":", " ", "0", ".", "8", "}">>,
     high |->
        <<"{", "\"", "a", "g", "e", "n", "t", "\"", ":", " ", "\"", "p", "l", "a", "n", "n",
          "e", "r", "\"", ",", " ", "\"", "c", "o", "n", "f", "i", "d", "e", "n", "c", "e",
          "\"", ":", " ", "1", ".", "7", "}">>,
     negative |->
        <<"{", "\"", "a", "g", "e", "n", "t", "\"", ":", " ", "\"", "A", "S", "S", "E", "S",
          "S", "O", "R", "\"", ",", " ", "\"", "c", "o", "n", "f", "i", "d", "e", "n", "c",
          "e", "\"", ":", " ", "-", "0", ".", "3", "}">>,
     fenced |->
        <<"backtick", "backtick", "backtick", "j", "s", "o", "n", "nl", "{", "\"", "a", "g",
          "e", "n", "t", "\"", ":", " ", "\"", "R", "E", "V", "I", "E", "W", "E", "R", "\"",
          ",", " ", "\"", "c", "o", "n", "f", "i", "d", "e", "n", "c", "e", "\"", ":", " ",
          "0", ".", "9", ",", " ", "\"", "s", "u", "g", "g", "e", "s", "t", "e", "d", "_", "t",
          "o", "p", "i", "c", "s", "\"", ":", " ", "[", "\"", "cy_k", "cy_o", "cy_d", "\"",
          ",", "]", ",", "}", "nl", "backtick", "backtick", "backtick">>,
     brokenHigh |->
        <<"{", "\"", "a", "g", "e", "n", "t", "\"", ":", " ", "\"", "P", "L", "A", "N", "N",
          "E", "R", "\"", ",", " ", "\"", "c", "o", "n", "f", "i", "d", "e", "n", "c", "e",
          "\"", ":", " ", "1", ".", "7", " ", "\"", "c", "o", "n", "t", "e", "x", "t", "\"",
          ":", " ", "\"", "x", "\"", "}">>,
     brokenNegative |->
        <<"{", "\"", "a", "g", "e", "n", "t", "\"", ":", " ", "\"", "A", "S", "S", "E", "S",
          "S", "O", "R", "\"", ",", " ", "\"", "c", "o", "n", "f", "i", "d", "e", "n", "c",
          "e", "\"", ":", " ", "-", "0", ".", "3", " ", "\"", "c", "o", "n", "t", "e", "x",
          "t", "\"", ":", " ", "\"", "x", "\"", "}">>,
     prose |->
        <<"CY_EH", "cy_t", "cy_o", " ", "cy_z", "cy_a", "cy_p", "cy_r", "cy_o", "cy_s", " ",
          "cy_n", "cy_a", " ", "cy_i", "cy_n", "cy_t", "cy_e", "cy_r", "cy_v", "cy_soft",
          "cy_yu">>,
     notObject |->
        <<"[", "1", ",", " ", "2", "]">>,
     quoted |->
        <<"{", "laquo", "a", "g", "e", "n", "t", "raquo", ":", " ", "laquo", "R", "E", "V",
          "I", "E", "W", "E", "R", "raquo", ",", " ", "laquo", "c", "o", "n", "f", "i", "d",
          "e", "n", "c", "e", "raquo", ":", " ", "0", ".", "6", "}">>,
     badNumber |->
        <<"{", "\"", "a", "g", "e", "n", "t", "\"", ":", " ", "\"", "P", "L", "A", "N", "N",
          "E", "R", "\"", ",", " ", "\"", "c", "o", "n", "f", "i", "d", "e", "n", "c", "e",
          "\"", ":", " ", "1", ".", "2", ".", "3", "}">>,
     short |->
        <<"{", "\"", "a", "g", "e", "n", "t", "\"", ":", "\"", "R", "E", "V", "I", "E", "W", "E", "R", "\"", "}">>,
     offCatalogue |->
        <<"{", "\"", "a", "g", "e", "n", "t", "\"", ":", " ", "\"", "h", "e", "l", "p", "e",
          "r", "\"", ",", " ", "\"", "c", "o", "n", "f", "i", "d", "e", "n", "c", "e", "\"",
          ":", " ", "0", ".", "5", "}">>]

\* A snippet returned by retrieve_context
Chunk ==
    <<"CY_CH", "cy_t", "cy_o", " ", "cy_t", "cy_a", "cy_k", "cy_o", "cy_e", " ", "G", "I", "L", " ", "cy_v", " ", "P", "y", "t", "h", "o", "n", "?">>

\* The messages route is called with
RouteMessages ==
    {Msg.plan, Msg.planText, Msg.learningPlan, Msg.interviewText, Msg.unknown, Msg.topic,
     Msg.level}

\* What self.llm.chat does: it raises, or answers with one of the texts
LLMResponses ==
    {[raises |-> TRUE, content |-> <<>>]}
        \cup {[raises |-> FALSE, content |-> LLMText[k]] : k \in DOMAIN LLMText}

\* What retrieve_context does: snippets for the message, snippets for its keywords only,
\* or an exception
RetrievalOutcomes ==
    {[fails |-> FALSE, by_text |-> <<Chunk>>, by_keyword |-> <<>>],
     [fails |-> FALSE, by_text |-> <<>>, by_keyword |-> <<Chunk>>],
     [fails |-> TRUE, by_text |-> <<>>, by_keyword |-> <<>>]}

\* route_result before route has returned
NoResult == RouteResult(<<>>, 0, FALSE, "none", 0)

-----------------------------------------------------------------------------
(* InterviewerAgent: the interview sessions.  A question is modelled by its *)
(* position in the list, a score by its number of points.                    *)

\* data["questions"][:3]: at most three of the generated questions are kept
QuestionLimit == 3

\* the number of fallback questions when the generation fails
FallbackQuestions == 2

\* InterviewScore.score in the returns of evaluate_answer that do no evaluation
MissingScore == 0
ErrorScore == 50

\* the thresholds of the performance level
ExcellentFrom == 80
GoodFrom == 60
SatisfactoryFrom == 40

\* get_current_question's None
NoQuestion == 0

\* InterviewSession(questions=..., current_question_index=0, scores=[])
InterviewSession(n) ==
    [questions |-> [i \in 1..n |-> i], current_question_index |-> 0, scores |-> <<>>]

\* start_interview(topic, level, session_id): the sessions afterwards.  generation is
\* what the question generation does: it fails (self.llm.chat or _extract_json raises,
\* or the JSON holds no "questions"), or it yields count questions.
start_interview(sessions, session_id, generation) ==
    LET kept == IF generation.count < QuestionLimit THEN generation.count ELSE QuestionLimit
        session == IF generation.fails THEN InterviewSession(FallbackQuestions)
                   ELSE InterviewSession(kept)
    IN  [id \in DOMAIN sessions \cup {session_id} |->
            IF id = session_id THEN session ELSE sessions[id]]

get_current_question(sessions, session_id) ==
    IF session_id \notin DOMAIN sessions THEN NoQuestion
    ELSE LET session == sessions[session_id]
         IN  IF session.current_question_index < Len(session.questions)
             THEN session.questions[session.current_question_index + 1]
             ELSE NoQuestion

\* evaluate_answer with a failed evaluation stored like an evaluated answer: the
\* fallback score appended and the index advanced (C24 is tested against it)
evaluate_answer_stores_failure(sessions, session_id, evaluation) ==
    IF session_id \notin DOMAIN sessions
    THEN [sessions |-> sessions, score |-> MissingScore, comment |-> "not_found"]
    ELSE IF sessions[session_id].current_question_index >= Len(sessions[session_id].questions)
    THEN [sessions |-> sessions, score |-> MissingScore, comment |-> "all_done"]
    ELSE [sessions |->
              [sessions EXCEPT
                  ![session_id].scores =
                      Append(@, IF evaluation.fails THEN ErrorScore ELSE evaluation.score),
                  ![session_id].current_question_index = @ + 1],
          score |-> IF evaluation.fails THEN ErrorScore ELSE evaluation.score,
          comment |-> IF evaluation.fails THEN "error" ELSE "evaluated"]

\* evaluate_answer without the test of the index against len(session.questions): an
\* evaluated answer advances the index wherever it stands (C15 is tested against it)
evaluate_answer_unbounded(sessions, session_id, evaluation) ==
    IF session_id \notin DOMAIN sessions
    THEN [sessions |-> sessions, score |-> MissingScore, comment |-> "not_found"]
    ELSE IF evaluation.fails
    THEN [sessions |-> sessions, score |-> ErrorScore, comment |-> "error"]
    ELSE [sessions |->
              [sessions EXCEPT
                  ![session_id].scores = Append(@, evaluation.score),
                  ![session_id].current_question_index = @ + 1],
          score |-> evaluation.score, comment |-> "evaluated"]

\* evaluate_answer(session_id, answer): the sessions afterwards and the InterviewScore
\* returned.  evaluation is what the evaluation of the answer does: it fails
\* (self.llm.chat, _extract_json or the validation of the score raises), or it yields
\* a score.
evaluate_answer(sessions, session_id, evaluation) ==
    IF session_id \notin DOMAIN sessions
    THEN [sessions |-> sessions, score |-> MissingScore, comment |-> "not_found"]
    ELSE LET session == sessions[session_id]
         IN  IF session.current_question_index >= Len(session.questions)
             THEN [sessions |-> sessions, score |-> MissingScore, comment |-> "all_done"]
             ELSE IF evaluation.fails
             THEN [sessions |-> sessions, score |-> ErrorScore, comment |-> "error"]
             ELSE [sessions |->
                       [sessions EXCEPT
                           ![session_id].scores = Append(@, evaluation.score),
                           ![session_id].current_question_index = @ + 1],
                   score |-> evaluation.score, comment |-> "evaluated"]

RECURSIVE sum(_)
sum(scores) == IF scores = <<>> THEN 0 ELSE scores[1] + sum(Tail(scores))

\* get_interview_summary(session_id): the status, the counts and the performance level
\* (average_score >= 80 is total >= 80 * len(scores))
get_interview_summary(sessions, session_id) ==
    IF session_id \notin DOMAIN sessions
    THEN [status |-> "error", completed_questions |-> 0, total_questions |-> 0,
          total_score |-> 0, performance_level |-> "none"]
    ELSE LET session == sessions[session_id]
             total_score == sum(session.scores)
             n == Len(session.scores)
         IN  IF session.scores = <<>>
             THEN [status |-> "active",
                   completed_questions |-> session.current_question_index,
                   total_questions |-> Len(session.questions),
                   total_score |-> 0, performance_level |-> "none"]
             ELSE [status |-> "summary",
                   completed_questions |-> n,
                   total_questions |-> Len(session.questions),
                   total_score |-> total_score,
                   performance_level |->
                       IF total_score >= ExcellentFrom * n THEN "excellent"
                       ELSE IF total_score >= GoodFrom * n THEN "good"
                       ELSE IF total_score >= SatisfactoryFrom * n THEN "satisfactory"
                       ELSE "needs_improvement"]

\* get_hints(session_id): the hints returned and the sessions afterwards.  The hints
\* a question holds are not part of the model of a question: has_hints says whether
\* the current question holds some, hinting what the generation of hints does (it
\* fails, or its text holds a list or none).  Storing hints[:2] in the current
\* question touches neither the list of questions nor the index.
get_hints(sessions, session_id, has_hints, hinting) ==
    LET current_question == get_current_question(sessions, session_id)
    IN  IF current_question # NoQuestion /\ has_hints
        THEN [sessions |-> sessions, hints |-> "stored"]
        ELSE IF current_question # NoQuestion /\ ~hinting.fails /\ hinting.list
        THEN [sessions |-> sessions, hints |-> "generated"]
        ELSE [sessions |-> sessions, hints |-> "default"]

\* end_interview that returns the summary and keeps the session (C17 is tested
\* against it)
end_interview_keeps_session(sessions, session_id) == sessions

\* end_interview(session_id): the sessions afterwards (the session is deleted)
end_interview(sessions, session_id) ==
    [id \in DOMAIN sessions \ {session_id} |-> sessions[id]]

-----------------------------------------------------------------------------
(* The agents: one call of AssessorAgent.assess, PlannerAgent.make_plan,     *)
(* ReviewerAgent.review, InterviewerAgent.start_interview or                 *)
(* InterviewerAgent.evaluate_answer, and the JSON extraction they rest on.   *)

\* Contents of the model's reply to an agent: nothing, two objects in a row, an empty
\* object, and, per operation, an answer of the shape asked for and answers of a wrong
\* shape
AgentText ==
    [empty |->
        <<>>,
     twoObjects |->
        <<"{", "\"", "s", "c", "o", "r", "e", "\"", ":", " ", "8", "0", "}", " ", "{",
          "\"", "s", "c", "o", "r", "e", "\"", ":", " ", "9", "0", "}">>,
     emptyObject |->
        <<"{", "}">>,
     assessment |->
        <<"{", "\"", "s", "c", "o", "r", "e", "s", "\"", ":", " ", "{", "\"", "t", "h",
          "e", "o", "r", "y", "\"", ":", " ", "7", "0", "}", ",", " ", "\"", "w", "e", "a",
          "k", "_", "t", "o", "p", "i", "c", "s", "\"", ":", " ", "[", "\"", "s", "q", "l",
          "\"", "]", ",", " ", "\"", "f", "o", "l", "l", "o", "w", "_", "u", "p", "\"",
          ":", " ", "\"", "o", "k", "\"", "}">>,
     assessmentWrong |->
        <<"{", "\"", "s", "c", "o", "r", "e", "s", "\"", ":", " ", "\"", "h", "i", "g",
          "h", "\"", ",", " ", "\"", "w", "e", "a", "k", "_", "t", "o", "p", "i", "c", "s",
          "\"", ":", " ", "5", "}">>,
     plan |->
        <<"{", "\"", "p", "l", "a", "n", "\"", ":", " ", "[", "{", "\"", "w", "e", "e",
          "k", "\"", ":", " ", "1", ",", " ", "\"", "t", "i", "t", "l", "e", "\"", ":",
          " ", "\"", "t", "\"", "}", "]", ",", " ", "\"", "s", "u", "m", "m", "a", "r",
          "y", "\"", ":", " ", "\"", "s", "\"", "}">>,
     planWrong |->
        <<"{", "\"", "p", "l", "a", "n", "\"", ":", " ", "[", "1", "]", "}">>,
     review |->
        <<"{", "\"", "i", "s", "s", "u", "e", "s", "\"", ":", " ", "[", "{", "\"", "t",
          "y", "p", "e", "\"", ":", " ", "\"", "b", "u", "g", "\"", ",", " ", "\"", "d",
          "e", "s", "c", "r", "i", "p", "t", "i", "o", "n", "\"", ":", " ", "\"", "d",
          "\"", "}", "]", ",", " ", "\"", "s", "c", "o", "r", "e", "\"", ":", " ", "8",
          "0", "}">>,
     reviewWrong |->
        <<"{", "\"", "i", "s", "s", "u", "e", "s", "\"", ":", " ", "\"", "n", "o", "n",
          "e", "\"", ",", " ", "\"", "s", "c", "o", "r", "e", "\"", ":", " ", "\"", "h",
          "i", "g", "h", "\"", "}">>,
     questions |->
        <<"{", "\"", "q", "u", "e", "s", "t", "i", "o", "n", "s", "\"", ":", " ", "[", "{",
          "\"", "q", "u", "e", "s", "t", "i", "o", "n", "\"", ":", " ", "\"", "q", "\"",
          ",", " ", "\"", "e", "x", "p", "e", "c", "t", "e", "d", "_", "c", "o", "n", "c",
          "e", "p", "t", "s", "\"", ":", " ", "[", "\"", "G", "I", "L", "\"", "]", "}",
          "]", "}">>,
     questionsMany |->
        <<"{", "\"", "q", "u", "e", "s", "t", "i", "o", "n", "s", "\"", ":", " ", "[", "{",
          "}", ",", " ", "{", "}", ",", " ", "{", "}", ",", " ", "{", "}", "]", "}">>,
     questionsNone |->
        <<"{", "\"", "q", "u", "e", "s", "t", "i", "o", "n", "s", "\"", ":", " ", "[", "]",
          "}">>,
     questionsNumbered |->
        <<"{", "\"", "q", "u", "e", "s", "t", "i", "o", "n", "s", "\"", ":", " ", "[", "{",
          "\"", "q", "u", "e", "s", "t", "i", "o", "n", "\"", ":", " ", "\"", "q", "\"",
          ",", " ", "\"", "e", "x", "p", "e", "c", "t", "e", "d", "_", "c", "o", "n", "c",
          "e", "p", "t", "s", "\"", ":", " ", "[", "1", "]", "}", "]", "}">>,
     questionsWrong |->
        <<"{", "\"", "q", "u", "e", "s", "t", "i", "o", "n", "s", "\"", ":", " ", "7", "}">>,
     score |->
        <<"{", "\"", "s", "c", "o", "r", "e", "\"", ":", " ", "9", "0", ",", " ", "\"",
          "c", "o", "m", "m", "e", "n", "t", "\"", ":", " ", "\"", "o", "k", "\"", "}">>,
     scoreWrong |->
        <<"{", "\"", "s", "c", "o", "r", "e", "\"", ":", " ", "\"", "h", "i", "g", "h",
          "\"", "}">>]

\* what an extraction hands to its caller: the parsed value with its members, or the
\* exception it raises
Extracted(raised, error, parsed) ==
    [raised |-> raised, error |-> error, val |-> parsed.val, pairs |-> parsed.pairs]

\* the value of json.loads, the named exception where it fails
extractedOr(parsed, error) ==
    IF parsed.ok THEN Extracted(FALSE, "none", parsed) ELSE Extracted(TRUE, error, ParseFail)

\* the Markdown fence removal at the head of _extract_json: text[7:].strip() after
\* "```json", text[3:].strip() after "```", text[:-3].strip() before a closing "```"
unfence(text) ==
    LET opened == IF startswith(text, FenceJson) THEN strip(SubSeq(text, 8, Len(text)))
                  ELSE IF startswith(text, Fence) THEN strip(SubSeq(text, 4, Len(text)))
                  ELSE text
    IN  IF endswith(opened, Fence) THEN strip(SubSeq(opened, 1, Len(opened) - 3))
        ELSE opened

\* InterviewerAgent._extract_json after the fence removal: json.loads of the match of
\* \{.*\} is not guarded (JSONDecodeError); without a match json.loads(text), and
\* ValueError where that fails
interviewerSearch(cleaned) ==
    IF braceMatch(cleaned).found
    THEN extractedOr(json_loads(braceMatch(cleaned).group), "JSONDecodeError")
    ELSE extractedOr(json_loads(cleaned), "ValueError")

\* InterviewerAgent._extract_json(text)
_extract_json(text) == interviewerSearch(unfence(text))

\* PlannerAgent._extract_json and ReviewerAgent._extract_json after the fence removal:
\* a match that does not parse is passed over, then json.loads(text), and ValueError
\* where that fails
guardedSearch(cleaned) ==
    IF braceMatch(cleaned).found /\ json_loads(braceMatch(cleaned).group).ok
    THEN Extracted(FALSE, "none", json_loads(braceMatch(cleaned).group))
    ELSE extractedOr(json_loads(cleaned), "ValueError")

\* PlannerAgent._extract_json(text)
planner_extract_json(text) == guardedSearch(unfence(text))

\* ReviewerAgent._extract_json(text)
reviewer_extract_json(text) == guardedSearch(unfence(text))

\* the extraction of route after _clean_response and _fix_json_problems: json.loads,
\* and _recover_json (which returns a dict in every case) where it fails
routerParse(cleaned) ==
    IF json_loads(cleaned).ok THEN Extracted(FALSE, "none", json_loads(cleaned))
    ELSE [raised |-> FALSE, error |-> "none", val |-> ObjVal, pairs |-> _recover_json(cleaned)]

\* the extraction of route from the answer of self.llm.chat (coordinator.py:219-249)
routerExtract(content) == routerParse(_fix_json_problems(_clean_response(strip(content))))

\* the names of the fields the agents read from the answer of the model
Field ==
    [scores |->
        <<"s", "c", "o", "r", "e", "s">>,
     weak_topics |->
        <<"w", "e", "a", "k", "_", "t", "o", "p", "i", "c", "s">>,
     follow_up |->
        <<"f", "o", "l", "l", "o", "w", "_", "u", "p">>,
     feedback |->
        <<"f", "e", "e", "d", "b", "a", "c", "k">>,
     plan |->
        <<"p", "l", "a", "n">>,
     week |->
        <<"w", "e", "e", "k">>,
     title |->
        <<"t", "i", "t", "l", "e">>,
     description |->
        <<"d", "e", "s", "c", "r", "i", "p", "t", "i", "o", "n">>,
     topics |->
        <<"t", "o", "p", "i", "c", "s">>,
     tasks |->
        <<"t", "a", "s", "k", "s">>,
     resources |->
        <<"r", "e", "s", "o", "u", "r", "c", "e", "s">>,
     estimated_hours |->
        <<"e", "s", "t", "i", "m", "a", "t", "e", "d", "_", "h", "o", "u", "r", "s">>,
     success_criteria |->
        <<"s", "u", "c", "c", "e", "s", "s", "_", "c", "r", "i", "t", "e", "r", "i", "a">>,
     summary |->
        <<"s", "u", "m", "m", "a", "r", "y">>,
     total_weeks |->
        <<"t", "o", "t", "a", "l", "_", "w", "e", "e", "k", "s">>,
     total_hours |->
        <<"t", "o", "t", "a", "l", "_", "h", "o", "u", "r", "s">>,
     focus_areas |->
        <<"f", "o", "c", "u", "s", "_", "a", "r", "e", "a", "s">>,
     issues |->
        <<"i", "s", "s", "u", "e", "s">>,
     type |->
        <<"t", "y", "p", "e">>,
     line |->
        <<"l", "i", "n", "e">>,
     recommendation |->
        <<"r", "e", "c", "o", "m", "m", "e", "n", "d", "a", "t", "i", "o", "n">>,
     severity |->
        <<"s", "e", "v", "e", "r", "i", "t", "y">>,
     code_snippet |->
        <<"c", "o", "d", "e", "_", "s", "n", "i", "p", "p", "e", "t">>,
     score |->
        <<"s", "c", "o", "r", "e">>,
     strengths |->
        <<"s", "t", "r", "e", "n", "g", "t", "h", "s">>,
     improvements |->
        <<"i", "m", "p", "r", "o", "v", "e", "m", "e", "n", "t", "s">>,
     similar_solutions |->
        <<"s", "i", "m", "i", "l", "a", "r", "_", "s", "o", "l", "u", "t", "i", "o", "n",
          "s">>,
     questions |->
        <<"q", "u", "e", "s", "t", "i", "o", "n", "s">>,
     topic |->
        <<"t", "o", "p", "i", "c">>,
     question |->
        <<"q", "u", "e", "s", "t", "i", "o", "n">>,
     expected_concepts |->
        <<"e", "x", "p", "e", "c", "t", "e", "d", "_", "c", "o", "n", "c", "e", "p", "t",
          "s">>,
     difficulty |->
        <<"d", "i", "f", "f", "i", "c", "u", "l", "t", "y">>,
     hints |->
        <<"h", "i", "n", "t", "s">>,
     similar_questions |->
        <<"s", "i", "m", "i", "l", "a", "r", "_", "q", "u", "e", "s", "t", "i", "o", "n",
          "s">>,
     comment |->
        <<"c", "o", "m", "m", "e", "n", "t">>,
     strong_points |->
        <<"s", "t", "r", "o", "n", "g", "_", "p", "o", "i", "n", "t", "s">>,
     weak_points |->
        <<"w", "e", "a", "k", "_", "p", "o", "i", "n", "t", "s">>,
     recommended_resources |->
        <<"r", "e", "c", "o", "m", "m", "e", "n", "d", "e", "d", "_", "r", "e", "s", "o",
          "u", "r", "c", "e", "s">>]

\* the texts of the context strings: the heads of their lines, the marker review
\* looks for, the notes for an empty retrieval, a topic and a fallback concept
ContextText ==
    [assess |->
        <<"-", " ">>,
     material |->
        <<"emoji_books", " ", "CY_M", "cy_a", "cy_t", "cy_e", "cy_r", "cy_i", "cy_a",
          "cy_l", " ">>,
     example |->
        <<"emoji_clipboard", " ", "CY_P", "cy_r", "cy_i", "cy_m", "cy_e", "cy_r", " ">>,
     concept |->
        <<"emoji_bluebook", " ", "CY_P", "cy_o", " ", "cy_k", "cy_o", "cy_n", "cy_c",
          "cy_e", "cy_p", "cy_c", "cy_i", "cy_i", " ", "'">>,
     conceptEnd |->
        <<"'", ":", " ">>,
     bestPracticesHead |->
        <<"emoji_books", " ", "*", "*", "CY_L", "cy_u", "cy_ch", "cy_sh", "cy_i", "cy_e",
          " ", "cy_p", "cy_r", "cy_a", "cy_k", "cy_t", "cy_i", "cy_k", "cy_i", ":", "*", "*">>,
     commonMistakesHead |->
        <<"nl", "emoji_warning", "vs16", " ", " ", "*", "*", "CY_R", "cy_a", "cy_s",
          "cy_p", "cy_r", "cy_o", "cy_s", "cy_t", "cy_r", "cy_a", "cy_n", "cy_e", "cy_n",
          "cy_n", "cy_y", "cy_e", " ", "cy_o", "cy_sh", "cy_i", "cy_b", "cy_k", "cy_i",
          ":", "*", "*">>,
     bestPractices |->
        <<"CY_L", "cy_u", "cy_ch", "cy_sh", "cy_i", "cy_e", " ", "cy_p", "cy_r", "cy_a",
          "cy_k", "cy_t", "cy_i", "cy_k", "cy_i">>,
     noExtra |->
        <<"CY_N", "cy_e", "cy_t", " ", "cy_d", "cy_o", "cy_p", "cy_o", "cy_l", "cy_n",
          "cy_i", "cy_t", "cy_e", "cy_l", "cy_soft", "cy_n", "cy_o", "cy_g", "cy_o", " ",
          "cy_k", "cy_o", "cy_n", "cy_t", "cy_e", "cy_k", "cy_s", "cy_t", "cy_a">>,
     noReview |->
        <<"CY_N", "cy_e", "cy_t", " ", "cy_r", "cy_e", "cy_l", "cy_e", "cy_v", "cy_a",
          "cy_n", "cy_t", "cy_n", "cy_o", "cy_g", "cy_o", " ", "cy_k", "cy_o", "cy_n",
          "cy_t", "cy_e", "cy_k", "cy_s", "cy_t", "cy_a">>,
     topic |->
        <<"G", "I", "L">>,
     basics |->
        <<"cy_b", "cy_a", "cy_z", "cy_o", "cy_v", "cy_y", "cy_e", " ", "cy_p", "cy_r",
          "cy_i", "cy_n", "cy_c", "cy_i", "cy_p", "cy_y">>]

\* the limits of chunk[:n] in the context strings
SnippetLimit == [assess |-> 300, material |-> 250, example |-> 300, concept |-> 200, review |-> 250]

\* f"{head}{chunk[:limit]}..."
snippetLine(head, chunk, limit) ==
    head \o SubSeq(chunk, 1, IF Len(chunk) < limit THEN Len(chunk) ELSE limit)
         \o <<".", ".", ".">>

\* f"{head}{i + 1}{tail}" for the position i + 1 of enumerate
numbered(head, position, tail) == head \o <<DigitChars[position + 1]>> \o tail

RECURSIVE join(_)
\* "\n".join(lines)
join(lines) ==
    IF Len(lines) = 0 THEN <<>>
    ELSE IF Len(lines) = 1 THEN lines[1]
    ELSE lines[1] \o <<"nl">> \o join(Tail(lines))

\* What the retrieval does in a call of an agent: the snippets of the first query
\* (chunks) and of the second one (more), or an exception while the context is built
AgentRetrievals ==
    {[fails |-> FALSE, chunks |-> c, more |-> m] : c \in {<<>>, <<Chunk>>}, m \in {<<>>, <<Chunk>>}}
        \cup {[fails |-> TRUE, chunks |-> <<>>, more |-> <<>>]}

\* AssessorAgent._get_rag_context(topics, answer)["context"], for an answer of more than
\* 10 characters (the second query is made)
_get_rag_context(use_rag, retrieval) ==
    IF ~use_rag \/ retrieval.fails THEN <<>>
    ELSE join([i \in 1..Len(retrieval.chunks \o retrieval.more) |->
                  snippetLine(ContextText.assess, (retrieval.chunks \o retrieval.more)[i],
                              SnippetLimit.assess)])

\* PlannerAgent._get_rag_context_for_planning(user_text, level, track)["rag_context"]
_get_rag_context_for_planning(use_rag, retrieval) ==
    IF ~use_rag \/ retrieval.fails THEN <<>>
    ELSE join([i \in 1..Len(retrieval.chunks) |->
                  snippetLine(numbered(ContextText.material, i, <<":", " ">>),
                              retrieval.chunks[i], SnippetLimit.material)])

\* InterviewerAgent._get_rag_context_for_questions(topic, level)["rag_context"]
_get_rag_context_for_questions(use_rag, retrieval) ==
    IF ~use_rag \/ retrieval.fails THEN <<>>
    ELSE join([i \in 1..Len(retrieval.chunks) |->
                  snippetLine(numbered(ContextText.example, i, <<":", " ">>),
                              retrieval.chunks[i], SnippetLimit.example)])

\* the snippets _get_rag_context_for_evaluation collects: one query per concept of
\* expected_concepts[:3], then the query of the question
evaluationChunks(expected_concepts, retrieval) ==
    repeatChunks(retrieval.chunks, IF Len(expected_concepts) < 3 THEN Len(expected_concepts) ELSE 3)
        \o retrieval.more

\* the lines of _get_rag_context_for_evaluation; concept is the variable the loop over
\* the concepts left behind (the characters of a str, none of another value)
evaluationLines(concept, context_chunks) ==
    [i \in 1..Len(context_chunks) |->
        snippetLine(ContextText.concept \o concept.s \o ContextText.conceptEnd,
                    context_chunks[i], SnippetLimit.concept)]

\* InterviewerAgent._get_rag_context_for_evaluation(question, expected_concepts)
\* ["rag_context"]: without snippets the note "Нет дополнительного контекста"; with
\* snippets and no concept the name concept is unbound, the NameError is caught
_get_rag_context_for_evaluation(expected_concepts, use_rag, retrieval) ==
    IF ~use_rag \/ retrieval.fails THEN <<>>
    ELSE IF evaluationChunks(expected_concepts, retrieval) = <<>> THEN ContextText.noExtra
    ELSE IF Len(expected_concepts) = 0 THEN <<>>
    ELSE join(evaluationLines(
                  expected_concepts[IF Len(expected_concepts) < 3 THEN Len(expected_concepts) ELSE 3],
                  evaluationChunks(expected_concepts, retrieval)))

\* the block of _get_rag_context_for_review for one list of snippets: its head line,
\* then f"{i + 1}. {chunk[:250]}..." per snippet; nothing for an empty list
reviewBlock(head, chunks) ==
    IF Len(chunks) = 0 THEN <<>>
    ELSE <<head>> \o [i \in 1..Len(chunks) |->
                        snippetLine(numbered(<<>>, i, <<".", " ">>), chunks[i],
                                    SnippetLimit.review)]

\* ReviewerAgent._get_rag_context_for_review(code, language, context)["rag_context"],
\* for code without keywords (no similar solutions are searched)
_get_rag_context_for_review(use_rag, retrieval) ==
    IF ~use_rag \/ retrieval.fails THEN <<>>
    ELSE IF retrieval.chunks = <<>> /\ retrieval.more = <<>> THEN ContextText.noReview
    ELSE join(reviewBlock(ContextText.bestPracticesHead, retrieval.chunks)
                  \o reviewBlock(ContextText.commonMistakesHead, retrieval.more))

\* RAG_AVAILABLE of the module of each agent: it is set where the import from
\* rag.retriever succeeds.  rag/retriever.py defines retrieve_context, but neither
\* search_similar nor build_prompt, so the imports of planner_agent.py, reviewer.py and
\* interviewer_agent.py raise ImportError; coordinator.py and assessor_agent.py import
\* retrieve_context alone (without chromadb their RAG_AVAILABLE is False as well, which
\* is the case of use_rag = False).
RAG_AVAILABLE_everywhere ==
    [route |-> TRUE, assess |-> TRUE, make_plan |-> TRUE, review |-> TRUE,
     start_interview |-> TRUE, evaluate_answer |-> TRUE]

RAG_AVAILABLE ==
    [route |-> TRUE, assess |-> TRUE, make_plan |-> FALSE, review |-> FALSE,
     start_interview |-> FALSE, evaluate_answer |-> FALSE]

\* self.use_rag = use_rag and RAG_AVAILABLE, of the agent that op belongs to
selfUseRag(op, use_rag) == use_rag /\ RAG_AVAILABLE[op]

\* the prompt variant with context whenever retrieval is enabled (C19 is tested
\* against it)
promptWithContextWhenEnabled(use_rag, rag_context) == use_rag

\* the choice of the prompt in assess, make_plan, start_interview and evaluate_answer:
\* self.use_rag and rag_context[...]
promptWithContext(use_rag, rag_context) == use_rag /\ rag_context # <<>>

\* the choice of the prompt in review: ... and "Лучшие практики" in rag_context[...]
reviewPromptWithContext(use_rag, rag_context) ==
    use_rag /\ rag_context # <<>> /\ contains(rag_context, ContextText.bestPractices)

\* what a call of an agent operation gives its caller: the class of the record returned
\* ("none" where the call raises), the exception, the return statement taken and the
\* prompt variant that was built
AgentResult(record, raised, error, path, with_context) ==
    [record |-> record, raised |-> raised, error |-> error, path |-> path,
     with_context |-> with_context]

NoAgentResult == AgentResult("none", FALSE, "none", "none", FALSE)

\* pydantic validation of a field read with data.get(key, default): an absent key takes
\* the (valid) default
fieldIs(pairs, key, kinds) == dictHas(pairs, key) => dictGet(pairs, key).k \in kinds

\* the JSON values a str field and an int field take (numbers are coerced to str)
StrKinds == {"str", "num"}
IntKinds == {"num", "true", "false"}

\* a List[str] field
fieldIsStrList(pairs, key, optional) ==
    dictHas(pairs, key) =>
        \/ optional /\ dictGet(pairs, key).k = "null"
        \/ /\ dictGet(pairs, key).k = "arr"
           /\ \A i \in DOMAIN dictItems(pairs, key) : dictItems(pairs, key)[i].val.k \in StrKinds

\* for item in data.get(key, []): item.get(...) and the validation of the item.  A
\* list of objects passes where every item is valid; an empty str or dict has nothing
\* to iterate; a str or dict with content gives items without get (AttributeError),
\* a number, a boolean or null cannot be iterated (TypeError)
itemsValid(pairs, key, Valid(_)) ==
    dictHas(pairs, key) =>
        \/ /\ dictGet(pairs, key).k = "arr"
           /\ \A i \in DOMAIN dictItems(pairs, key) :
                  /\ dictItems(pairs, key)[i].val.k = "obj"
                  /\ Valid(dictItems(pairs, key)[i].pairs)
        \/ dictGet(pairs, key).k = "obj" /\ dictItems(pairs, key) = <<>>
        \/ dictGet(pairs, key).k = "str" /\ dictGet(pairs, key).s = <<>>

(* --- AssessorAgent.assess --- *)

\* the fence removal of assess (assessor_agent.py:191-194)
assessContent(content) ==
    IF contains(content, FenceJson)
    THEN strip(splitFirst(splitSecond(content, FenceJson), Fence))
    ELSE IF contains(content, Fence) THEN strip(stripChars(content, {"backtick"}))
    ELSE content

\* the validation of AssessResult(scores: dict, weak_topics: list, follow_up: str,
\* feedback: Optional[str])
assessResultValid(pairs) ==
    /\ fieldIs(pairs, Field.scores, {"obj"})
    /\ fieldIs(pairs, Field.weak_topics, {"arr"})
    /\ fieldIs(pairs, Field.follow_up, StrKinds)
    /\ fieldIs(pairs, Field.feedback, StrKinds \cup {"null"})

\* the except json.JSONDecodeError of assess: the match of \{.*\} parsed once more,
\* else the record of scores 60
assessReparsed(content, with_context) ==
    IF /\ braceMatch(content).found
       /\ json_loads(braceMatch(content).group).ok
       /\ assessResultValid(json_loads(braceMatch(content).group).pairs)
    THEN AgentResult("AssessResult", FALSE, "none", "reparsed", with_context)
    ELSE AgentResult("AssessResult", FALSE, "none", "parse_fallback", with_context)

\* the try block of assess after the fence removal: what is no JSONDecodeError (an
\* answer that is no object, a field of the wrong type) reaches the except Exception
\* and its record of scores 50
assessParsed(content, parsed, with_context) ==
    IF ~parsed.ok THEN assessReparsed(content, with_context)
    ELSE IF parsed.val.k = "obj" /\ assessResultValid(parsed.pairs)
    THEN AgentResult("AssessResult", FALSE, "none", "direct", with_context)
    ELSE AgentResult("AssessResult", FALSE, "none", "error_fallback", with_context)

assessCleaned(content, with_context) == assessParsed(content, json_loads(content), with_context)

assessPrompted(llm, with_context) ==
    IF llm.raises THEN AgentResult("AssessResult", FALSE, "none", "error_fallback", with_context)
    ELSE assessCleaned(assessContent(llm.content), with_context)

\* AssessorAgent.assess(answer, topics, user_context)
assess(llm, use_rag, retrieval) ==
    assessPrompted(llm, promptWithContext(use_rag, _get_rag_context(use_rag, retrieval)))

(* --- PlannerAgent.make_plan --- *)

\* the validation of LearningGoal
learningGoalValid(item) ==
    /\ fieldIs(item, Field.week, IntKinds)
    /\ fieldIs(item, Field.title, StrKinds)
    /\ fieldIs(item, Field.description, StrKinds)
    /\ fieldIsStrList(item, Field.topics, FALSE)
    /\ fieldIsStrList(item, Field.tasks, FALSE)
    /\ fieldIsStrList(item, Field.resources, FALSE)
    /\ fieldIs(item, Field.estimated_hours, IntKinds)
    /\ fieldIsStrList(item, Field.success_criteria, FALSE)

\* the loop over data.get("plan", []) and the validation of PlanResult
planResultValid(pairs) ==
    /\ itemsValid(pairs, Field.plan, learningGoalValid)
    /\ fieldIs(pairs, Field.summary, StrKinds)
    /\ fieldIs(pairs, Field.total_weeks, IntKinds)
    /\ fieldIs(pairs, Field.total_hours, IntKinds)
    /\ fieldIsStrList(pairs, Field.focus_areas, FALSE)

\* the try block of make_plan after _extract_json; every exception ends in the
\* fallback plan of the except Exception
planExtracted(data, with_context) ==
    IF ~data.raised /\ data.val.k = "obj" /\ planResultValid(data.pairs)
    THEN AgentResult("PlanResult", FALSE, "none", "direct", with_context)
    ELSE AgentResult("PlanResult", FALSE, "none", "error_fallback", with_context)

planPrompted(llm, with_context) ==
    IF llm.raises THEN AgentResult("PlanResult", FALSE, "none", "error_fallback", with_context)
    ELSE planExtracted(planner_extract_json(llm.content), with_context)

\* PlannerAgent.make_plan(user_text, level, track, weeks, goals)
make_plan(llm, use_rag, retrieval) ==
    planPrompted(llm, promptWithContext(use_rag, _get_rag_context_for_planning(use_rag, retrieval)))

(* --- ReviewerAgent.review --- *)

\* the validation of Issue
issueValid(item) ==
    /\ fieldIs(item, Field.type, StrKinds)
    /\ fieldIs(item, Field.line, IntKinds \cup {"null"})
    /\ fieldIs(item, Field.description, StrKinds)
    /\ fieldIs(item, Field.recommendation, StrKinds)
    /\ fieldIs(item, Field.severity, StrKinds)
    /\ fieldIs(item, Field.code_snippet, StrKinds \cup {"null"})

\* the loop over data.get("issues", []) and the validation of ReviewResult
reviewResultValid(pairs) ==
    /\ itemsValid(pairs, Field.issues, issueValid)
    /\ fieldIs(pairs, Field.summary, StrKinds)
    /\ fieldIs(pairs, Field.score, IntKinds)
    /\ fieldIs(pairs, Field.follow_up, StrKinds)
    /\ fieldIsStrList(pairs, Field.strengths, FALSE)
    /\ fieldIsStrList(pairs, Field.improvements, FALSE)
    /\ fieldIsStrList(pairs, Field.similar_solutions, TRUE)

\* the try block of review after _extract_json
reviewExtracted(data, with_context) ==
    IF ~data.raised /\ data.val.k = "obj" /\ reviewResultValid(data.pairs)
    THEN AgentResult("ReviewResult", FALSE, "none", "direct", with_context)
    ELSE AgentResult("ReviewResult", FALSE, "none", "error_fallback", with_context)

reviewPrompted(llm, with_context) ==
    IF llm.raises THEN AgentResult("ReviewResult", FALSE, "none", "error_fallback", with_context)
    ELSE reviewExtracted(reviewer_extract_json(llm.content), with_context)

\* ReviewerAgent.review(code, context, language)
review(llm, use_rag, retrieval) ==
    reviewPrompted(llm, reviewPromptWithContext(use_rag, _get_rag_context_for_review(use_rag, retrieval)))

(* --- InterviewerAgent.start_interview and evaluate_answer, one call --- *)

\* the validation of InterviewQuestion (expected_concepts: list takes a list of
\* anything)
interviewQuestionValid(item) ==
    /\ fieldIs(item, Field.topic, StrKinds)
    /\ fieldIs(item, Field.question, StrKinds)
    /\ fieldIs(item, Field.expected_concepts, {"arr"})
    /\ fieldIs(item, Field.difficulty, StrKinds)
    /\ fieldIsStrList(item, Field.hints, TRUE)
    /\ fieldIsStrList(item, Field.similar_questions, TRUE)

\* a question as evaluate_answer reads it: its expected_concepts, the values of
\* q_data.get("expected_concepts", [topic])
questionOf(item) ==
    [expected_concepts |->
        IF dictHas(item, Field.expected_concepts)
        THEN [i \in 1..Len(dictItems(item, Field.expected_concepts)) |->
                 dictItems(item, Field.expected_concepts)[i].val]
        ELSE <<StrVal(ContextText.topic)>>]

\* the two questions of the except branch of start_interview
fallback_questions ==
    << [expected_concepts |-> <<StrVal(ContextText.topic), StrVal(ContextText.basics)>>],
       [expected_concepts |-> <<StrVal(ContextText.basics)>>] >>

\* data["questions"][:3] of a list
firstQuestions(items) == SubSeq(items, 1, IF Len(items) < QuestionLimit THEN Len(items) ELSE QuestionLimit)

\* the try block of start_interview after _extract_json: the questions built, or the
\* failure that leads to the fallback questions (no "questions" key, a value that
\* cannot be sliced or whose items have no get, an invalid question)
questionsExtracted(data) ==
    IF data.raised \/ data.val.k # "obj" \/ ~dictHas(data.pairs, Field.questions)
    THEN [fails |-> TRUE, questions |-> <<>>]
    ELSE IF dictGet(data.pairs, Field.questions).k = "str"
            /\ dictGet(data.pairs, Field.questions).s = <<>>
    THEN [fails |-> FALSE, questions |-> <<>>]
    ELSE IF /\ dictGet(data.pairs, Field.questions).k = "arr"
            /\ \A i \in DOMAIN firstQuestions(dictItems(data.pairs, Field.questions)) :
                   /\ dictItems(data.pairs, Field.questions)[i].val.k = "obj"
                   /\ interviewQuestionValid(dictItems(data.pairs, Field.questions)[i].pairs)
    THEN [fails |-> FALSE,
          questions |->
              [i \in 1..Len(firstQuestions(dictItems(data.pairs, Field.questions))) |->
                  questionOf(dictItems(data.pairs, Field.questions)[i].pairs)]]
    ELSE [fails |-> TRUE, questions |-> <<>>]

\* what the question generation of start_interview does with the answer of the model
questionsGenerated(llm) ==
    IF llm.raises THEN [fails |-> TRUE, questions |-> <<>>]
    ELSE questionsExtracted(_extract_json(llm.content))

\* the questions of the session start_interview makes
sessionQuestions(generated) ==
    IF generated.fails THEN fallback_questions ELSE generated.questions

\* the same as the generation of start_interview above
generationOf(generated) == [fails |-> generated.fails, count |-> Len(generated.questions)]

\* what start_interview(topic, level, session_id) returns: the session it has put into
\* the sessions
startInterviewCall(sessions, session_id, generated, with_context) ==
    IF session_id \in DOMAIN sessions
    THEN AgentResult("InterviewSession", FALSE, "none",
                     IF generated.fails THEN "error_fallback" ELSE "direct", with_context)
    ELSE AgentResult("none", FALSE, "none", "none", with_context)

\* the validation of InterviewScore
interviewScoreValid(pairs) ==
    /\ fieldIs(pairs, Field.score, IntKinds)
    /\ fieldIs(pairs, Field.comment, StrKinds)
    /\ fieldIsStrList(pairs, Field.strong_points, TRUE)
    /\ fieldIsStrList(pairs, Field.weak_points, TRUE)
    /\ fieldIsStrList(pairs, Field.recommended_resources, TRUE)

\* data.get("score", 50)
DefaultScore == 50

\* the int a valid score field is taken as (a number without its fraction, a boolean
\* as 1 or 0)
scoreOf(pairs) ==
    IF ~dictHas(pairs, Field.score) THEN DefaultScore
    ELSE IF dictGet(pairs, Field.score).k = "num" THEN dictGet(pairs, Field.score).n \div 100
    ELSE IF dictGet(pairs, Field.score).k = "true" THEN 1 ELSE 0

\* the try block of evaluate_answer after _extract_json
scoreExtracted(data) ==
    IF data.raised \/ data.val.k # "obj" \/ ~interviewScoreValid(data.pairs)
    THEN [fails |-> TRUE, score |-> 0]
    ELSE [fails |-> FALSE, score |-> scoreOf(data.pairs)]

\* what the evaluation of evaluate_answer does with the answer of the model
scoreEvaluated(llm) ==
    IF llm.raises THEN [fails |-> TRUE, score |-> 0] ELSE scoreExtracted(_extract_json(llm.content))

\* ", ".join(current_question.expected_concepts) raises TypeError on an item that is no
\* str; it is evaluated for the prompt with context only, before the try block
joinRaises(expected_concepts) ==
    \E i \in DOMAIN expected_concepts : expected_concepts[i].k # "str"

\* evaluate_answer once the prompt variant is chosen: the prompt is built before the
\* try block, the rest is evaluate_answer as above
evaluatePrompted(sessions, session_id, question, evaluation, with_context) ==
    IF with_context /\ joinRaises(question.expected_concepts)
    THEN AgentResult("none", TRUE, "TypeError", "prompt", with_context)
    ELSE AgentResult("InterviewScore", FALSE, "none",
                     evaluate_answer(sessions, session_id, evaluation).comment, with_context)

\* what evaluate_answer(session_id, answer) returns or raises; questions are the
\* questions of the session as start_interview built them
evaluateAnswerCall(questions, sessions, session_id, evaluation, use_rag, retrieval) ==
    IF get_current_question(sessions, session_id) = NoQuestion
    THEN AgentResult("InterviewScore", FALSE, "none",
                     evaluate_answer(sessions, session_id, evaluation).comment, FALSE)
    ELSE evaluatePrompted(sessions, session_id,
             questions[get_current_question(sessions, session_id)], evaluation,
             promptWithContext(use_rag,
                 _get_rag_context_for_evaluation(
                     questions[get_current_question(sessions, session_id)].expected_concepts,
                     use_rag, retrieval)))

\* the extraction step of the router and of the agents, on the text of an answer
ExtractionOps ==
    {"CoordinatorAgent.route", "InterviewerAgent._extract_json",
     "PlannerAgent._extract_json", "ReviewerAgent._extract_json"}

extraction(op, text) ==
    CASE op = "CoordinatorAgent.route" -> routerExtract(text)
      [] op = "InterviewerAgent._extract_json" -> _extract_json(text)
      [] op = "PlannerAgent._extract_json" -> planner_extract_json(text)
      [] op = "ReviewerAgent._extract_json" -> reviewer_extract_json(text)

\* what the extraction gives its caller: a dict, another JSON value, or an exception
extractionResult(extracted) ==
    AgentResult(IF extracted.raised THEN "none"
                ELSE IF extracted.val.k = "obj" THEN "dict" ELSE extracted.val.k,
                extracted.raised, extracted.error, "extraction", FALSE)

\* the operations that build a prompt, and the record each of them returns
AgentOps ==
    [assess |-> "AssessResult", make_plan |-> "PlanResult", review |-> "ReviewResult",
     start_interview |-> "InterviewSession", evaluate_answer |-> "InterviewScore"]

AgentCall(op, llm, generation, use_rag, retrieval) ==
    [op |-> op, llm |-> llm, generation |-> generation, use_rag |-> use_rag,
     retrieval |-> retrieval]

-----------------------------------------------------------------------------
(* CoordinatorAgent.route_with_history *)

\* the literals of route_with_history
HistoryWord ==
    [user |->
        <<"CY_P", "cy_o", "cy_l", "cy_soft", "cy_z", "cy_o", "cy_v", "cy_a", "cy_t", "cy_e",
          "cy_l", "cy_soft">>,
     bot |-> <<"CY_B", "cy_o", "cy_t">>,
     sep |-> <<":", " ">>,
     dots |-> <<".", ".", ".">>,
     open |->
        <<" ", "[", "cy_k", "cy_o", "cy_n", "cy_t", "cy_e", "cy_k", "cy_s", "cy_t", " ",
          "cy_i", "cy_z", " ", "cy_i", "cy_s", "cy_t", "cy_o", "cy_r", "cy_i", "cy_i", ":",
          " ">>,
     close |-> <<".", ".", ".", "]">>,
     plan |-> <<"/", "p", "l", "a", "n">>]

\* the words of the learning test (coordinator.py:359)
learning_words ==
    << <<"cy_i", "cy_z", "cy_u", "cy_ch">>,
       <<"cy_o", "cy_s", "cy_v", "cy_o">>,
       <<"cy_n", "cy_a", "cy_u", "cy_ch">>,
       <<"cy_h", "cy_o", "cy_ch", "cy_u", " ", "cy_i", "cy_z", "cy_u", "cy_ch", "cy_a", "cy_t", "cy_soft">> >>

\* contents of history entries: a bot message with /plan, a user message with a learning
\* verb, and messages with neither
HistoryText ==
    [askTopic |-> <<"/", "p", "l", "a", "n", ":", " ", "cy_t", "cy_e", "cy_m", "cy_a", "?">>,
     learn |->
        <<"CY_H", "cy_o", "cy_ch", "cy_u", " ", "cy_i", "cy_z", "cy_u", "cy_ch", "cy_i",
          "cy_t", "cy_soft", " ", "S", "Q", "L">>,
     hello |-> <<"cy_p", "cy_r", "cy_i", "cy_v", "cy_e", "cy_t">>,
     done |-> <<"CY_G", "cy_o", "cy_t", "cy_o", "cy_v", "cy_o">>]

\* history[-n:]
lastEntries(entries, n) ==
    SubSeq(entries, IF Len(entries) > n THEN Len(entries) - n + 1 ELSE 1, Len(entries))

\* f"{'Пользователь' if msg.get('role') == 'user' else 'Бот'}: {content[:100]}..."
historyLine(msg) ==
    (IF msg.role = "user" THEN HistoryWord.user ELSE HistoryWord.bot)
        \o HistoryWord.sep
        \o SubSeq(msg.content, 1, IF Len(msg.content) < 100 THEN Len(msg.content) ELSE 100)
        \o HistoryWord.dots

\* history_context: the lines of the last three entries
history_context(entries) ==
    join([i \in DOMAIN lastEntries(entries, 3) |-> historyLine(lastEntries(entries, 3)[i])])

\* one of the last two entries is a bot message that holds '/plan'
planAsked(entries) ==
    \E i \in DOMAIN lastEntries(entries, 2) :
        /\ lastEntries(entries, 2)[i].role = "bot"
        /\ contains(lastEntries(entries, 2)[i].content, HistoryWord.plan)

\* the most recent user entry holds one of the learning words
learningAsked(entries) ==
    \E i \in DOMAIN entries :
        /\ entries[i].role = "user"
        /\ \A j \in DOMAIN entries : entries[j].role = "user" => j <= i
        /\ \E w \in DOMAIN learning_words : contains(lower(entries[i].content), learning_words[w])

\* the text route is called with after a history without either
textWithHistory(text, entries) ==
    text \o HistoryWord.open
         \o SubSeq(history_context(entries), 1,
                   IF Len(history_context(entries)) < 50 THEN Len(history_context(entries))
                   ELSE 50)
         \o HistoryWord.close

\* what route_with_history hands to its caller: the RouteResult, or the exception
Routed(raised, error, result) == [raised |-> raised, error |-> error, result |-> result]

\* route_with_history(user_text, history, user_context).  The two RouteResult(agent=
\* "PLANNER", context=..., confidence=0.9) are built without metadata, a required field
\* of RouteResult (coordinator.py:34-40), so the construction raises ValidationError.
route_with_history(text, entries, llm, use_rag, retrieval) ==
    IF entries = <<>> THEN Routed(FALSE, "none", route(text, llm, use_rag, retrieval))
    ELSE IF planAsked(entries) \/ learningAsked(entries)
    THEN Routed(TRUE, "ValidationError", RouteResult(<<>>, 0, FALSE, "none", 0))
    ELSE Routed(FALSE, "none", route(textWithHistory(text, entries), llm, use_rag, retrieval))

-----------------------------------------------------------------------------
(* The bot: the handlers that register_handlers installs (main_router, then *)
(* the router of handlers/general.py) behind AgentsMiddleware, for one user. *)
(* A turn is the handling of one text message.                               *)

\* The FSM states, as FSMContext.get_state() returns them ("None": no state)
NoState == "None"
waiting_goal == "UserStates:waiting_goal"
waiting_for_level == "UserStates:waiting_for_level"
waiting_for_hours == "UserStates:waiting_for_hours"
creating_plan == "UserStates:creating_plan"

\* AgentsMiddleware.__call__: the states in which the coordinator is skipped
planning_states ==
    {"UserStates:waiting_goal", "UserStates:creating_plan", "UserStates:customizing_plan",
     "UserStates:waiting_for_days", "UserStates:waiting_for_hours", "None"}

\* The values of agents["planner"] that setup_agents builds (None: the agent is absent),
\* with the public methods of each
planner_methods ==
    [PlannerAgent |-> {"make_plan", "adjust_plan", "format_plan_response"},
     StubAgent |-> {"route", "assess"},
     None |-> {}]

\* process_plan_level: the substrings that select a level
level_stems ==
    [beginner |->
        << <<"cy_n", "cy_a", "cy_ch", "cy_i", "cy_n">>,
           <<"cy_n", "cy_a", "cy_ch", "cy_i", "cy_n", "cy_a", "cy_yu">>,
           <<"cy_n", "cy_a", "cy_ch", "cy_i", "cy_n", "cy_a">> >>,
     medium |->
        << <<"cy_s", "cy_r", "cy_e", "cy_d", "cy_n">>,
           <<"cy_s", "cy_r", "cy_e", "cy_d", "cy_n", "cy_i">> >>,
     advanced |->
        << <<"cy_p", "cy_r", "cy_o", "cy_d", "cy_v", "cy_i">>,
           <<"cy_p", "cy_r", "cy_o", "cy_d", "cy_v", "cy_i", "cy_n", "cy_u", "cy_t">> >>]

\* process_plan_level: the level stored
level_names ==
    [beginner |->
        <<"CY_N", "cy_a", "cy_ch", "cy_i", "cy_n", "cy_a", "cy_yu", "cy_sch", "cy_i", "cy_j">>,
     medium |-> <<"CY_S", "cy_r", "cy_e", "cy_d", "cy_n", "cy_i", "cy_j">>,
     advanced |->
        <<"CY_P", "cy_r", "cy_o", "cy_d", "cy_v", "cy_i", "cy_n", "cy_u", "cy_t", "cy_y",
          "cy_j">>]

\* process_save_plan_choice: the substrings that mean save
save_words ==
    [yes |-> <<"cy_d", "cy_a">>,
     save |-> <<"cy_s", "cy_o", "cy_h", "cy_r", "cy_a", "cy_n">>]

\* the defaults of data.get in process_plan_time and process_save_plan_choice
data_defaults ==
    [topic |-> <<"CY_N", "cy_e", " ", "cy_u", "cy_k", "cy_a", "cy_z", "cy_a", "cy_n", "cy_o">>,
     saved_topic |->
        <<"CY_N", "cy_e", "cy_i", "cy_z", "cy_v", "cy_e", "cy_s", "cy_t", "cy_n", "cy_a",
          "cy_ya", " ", "cy_t", "cy_e", "cy_m", "cy_a">>,
     level |-> <<"CY_S", "cy_r", "cy_e", "cy_d", "cy_n", "cy_i", "cy_j">>,
     time |-> <<"CY_N", "cy_e", " ", "cy_u", "cy_k", "cy_a", "cy_z", "cy_a", "cy_n", "cy_o">>,
     plan_content |-> <<>>]

\* FSMContext.update_data(key=value)
update_data(data, key, value) ==
    [k \in DOMAIN data \cup {key} |-> IF k = key THEN value ELSE data[k]]

\* data.get(key, default)
data_get(data, key, default) == IF key \in DOMAIN data THEN data[key] ELSE default

\* FSMContext.clear(): no state, no data
NoData == [k \in {} |-> <<>>]

\* The filter Command(name): the first word of the text is /name
Command(text, name) ==
    LET stops == {i \in 1..Len(text) : text[i] \in Whitespace}
        word == IF stops = {} THEN text
                ELSE SubSeq(text, 1, (CHOOSE i \in stops : \A j \in stops : i <= j) - 1)
    IN  word = <<"/">> \o name

\* What a handler did: the FSM state and data and the persisted plans afterwards, the
\* reply, the calls of CoordinatorAgent.route and of the planner, the exceptions raised
\* on the way (by their origin) and whether one of them left the handler
Outcome(state, data, saved_plans, reply, route_calls, planner_calls, raised, escaped) ==
    [state |-> state, data |-> data, plans |-> saved_plans, reply |-> reply,
     route_calls |-> route_calls, planner_calls |-> planner_calls,
     raised |-> raised, escaped |-> escaped]

\* PlanRepository.save_learning_plan(db, telegram_id, plan_data): one more plan record
save_learning_plan(saved_plans, plan_data) == Append(saved_plans, plan_data)

\* cmd_progress: the statistics, or the hint when the database fails; the state stays
cmd_progress(state, data, saved_plans, env) ==
    IF env.db_fails
    THEN Outcome(state, data, saved_plans, "progress_hint", 0, 0, {"db"}, FALSE)
    ELSE Outcome(state, data, saved_plans, "progress", 0, 0, {}, FALSE)

\* cmd_plan: state.clear(), then waiting_goal
cmd_plan(saved_plans) ==
    Outcome(waiting_goal, NoData, saved_plans, "ask_topic", 0, 0, {}, FALSE)

\* process_plan_topic: the stripped text becomes the topic
process_plan_topic(text, data, saved_plans) ==
    Outcome(waiting_for_level, update_data(data, "topic", strip(text)), saved_plans,
            "ask_level", 0, 0, {}, FALSE)

\* process_plan_level: the level named in the text, the medium one by default
process_plan_level(text, data, saved_plans) ==
    LET level_text == lower(text)
        named(l) == \E i \in DOMAIN level_stems[l] : contains(level_text, level_stems[l][i])
        level == IF named("beginner") THEN level_names.beginner
                 ELSE IF named("medium") THEN level_names.medium
                 ELSE IF named("advanced") THEN level_names.advanced
                 ELSE level_names.medium
    IN  Outcome(waiting_for_hours, update_data(data, "level", level), saved_plans,
                "ask_hours", 0, 0, {}, FALSE)

\* process_plan_time without the state.clear() of its except branch: the failed planner
\* call is answered, the dialogue moves on as if a plan had been made (C14 is tested
\* against it)
process_plan_time_keeps_state(text, data, saved_plans, planner_kind) ==
    IF planner_kind # "None"
    THEN Outcome(creating_plan, data, saved_plans, "plan_error", 0, 0, {"planner"}, FALSE)
    ELSE Outcome(creating_plan, data, saved_plans, "planner_unavailable", 0, 0, {}, FALSE)

\* process_plan_time(message, state, planner): with a planner, planner.process_query is
\* called (an AttributeError where the object has no such method) and the plan is kept
\* in the data; without one the reply says so; either way creating_plan follows.  An
\* exception clears the state.
process_plan_time(text, data, saved_plans, planner_kind) ==
    LET time_per_week == strip(text)
        plan_response == <<"p", "l", "a", "n">>
        with_plan == update_data(update_data(data, "plan_content", plan_response),
                                 "time", time_per_week)
    IN  IF planner_kind # "None"
        THEN IF "process_query" \in planner_methods[planner_kind]
             THEN Outcome(creating_plan, with_plan, saved_plans, "plan_created",
                          0, 1, {}, FALSE)
             ELSE Outcome(NoState, NoData, saved_plans, "plan_error",
                          0, 0, {"planner"}, FALSE)
        ELSE Outcome(creating_plan, data, saved_plans, "planner_unavailable",
                     0, 0, {}, FALSE)

\* the test of process_save_plan_choice (handlers/__init__.py:252)
wantsSave(choice) == contains(choice, save_words.yes) \/ contains(choice, save_words.save)

\* process_save_plan_choice: the plan is saved when the reply asks for it, and the
\* state is cleared in every case
process_save_plan_choice(text, data, saved_plans, env) ==
    LET choice == lower(text)
        plan_data == [topic |-> data_get(data, "topic", data_defaults.saved_topic),
                      level |-> data_get(data, "level", data_defaults.level),
                      time |-> data_get(data, "time", data_defaults.time),
                      content |-> data_get(data, "plan_content", data_defaults.plan_content)]
    IN  IF wantsSave(choice)
        THEN IF env.db_fails
             THEN Outcome(NoState, NoData, saved_plans, "save_error", 0, 0, {"db"}, FALSE)
             ELSE Outcome(NoState, NoData, save_learning_plan(saved_plans, plan_data),
                          "plan_saved", 0, 0, {}, FALSE)
        ELSE Outcome(NoState, NoData, saved_plans, "plan_not_saved", 0, 0, {}, FALSE)

\* cmd_review, cmd_interview, cmd_assess: a reply, nothing else
cmd_review(state, data, saved_plans) ==
    Outcome(state, data, saved_plans, "review_help", 0, 0, {}, FALSE)

cmd_interview(state, data, saved_plans) ==
    Outcome(state, data, saved_plans, "interview_question", 0, 0, {}, FALSE)

cmd_assess(state, data, saved_plans) ==
    Outcome(state, data, saved_plans, "assess_help", 0, 0, {}, FALSE)

\* what self.llm.chat raising does to the exceptions seen in a turn
llmRaised(text, env) == IF ~isPlanningRequest(text) /\ env.llm.raises THEN {"llm"} ELSE {}

\* agents["coordinator"].route(message.text) as the bot calls it: no retrieval
botRoute(text, env) ==
    route(text, env.llm, FALSE, [fails |-> FALSE, by_text |-> <<>>, by_keyword |-> <<>>])

\* the reply of handle_general_message for the agent chosen (general.py:45-111)
general_reply(agent) ==
    IF agent = ASSESSOR THEN "quick_assessment"
    ELSE IF agent = INTERVIEWER THEN "suggest_interview"
    ELSE IF agent = PLANNER THEN "suggest_plan"
    ELSE IF agent = REVIEWER THEN "suggest_review"
    ELSE "coordinator_choice"

\* handle_general_message: get_or_create_user is outside the try (a database failure
\* leaves the handler); then the coordinator routes the text, the session is stored and
\* the reply depends on the agent
handle_general_message(text, state, data, saved_plans, env) ==
    IF env.db_fails
    THEN Outcome(state, data, saved_plans, "none", 0, 0, {"db"}, TRUE)
    ELSE Outcome(state, data, saved_plans, general_reply(botRoute(text, env).agent),
                 1, 0, llmRaised(text, env), FALSE)

\* a message no handler takes
unhandled(state, data, saved_plans) ==
    Outcome(state, data, saved_plans, "none", 0, 0, {}, FALSE)

\* The dispatcher: the handlers in the order of their registration, the first whose
\* filter accepts the message runs.  (cmd_help, cmd_start and cmd_begin, between
\* cmd_review and the general handler, take /help, /start and /begin.)
dispatch(text, state, data, saved_plans, env, planner_kind) ==
    IF Command(text, <<"p", "r", "o", "g", "r", "e", "s", "s">>)
    THEN [handler |-> "cmd_progress", out |-> cmd_progress(state, data, saved_plans, env)]
    ELSE IF Command(text, <<"p", "l", "a", "n">>)
    THEN [handler |-> "cmd_plan", out |-> cmd_plan(saved_plans)]
    ELSE IF state = waiting_goal
    THEN [handler |-> "process_plan_topic",
          out |-> process_plan_topic(text, data, saved_plans)]
    ELSE IF state = waiting_for_level
    THEN [handler |-> "process_plan_level",
          out |-> process_plan_level(text, data, saved_plans)]
    ELSE IF state = waiting_for_hours
    THEN [handler |-> "process_plan_time",
          out |-> process_plan_time(text, data, saved_plans, planner_kind)]
    ELSE IF state = creating_plan
    THEN [handler |-> "process_save_plan_choice",
          out |-> process_save_plan_choice(text, data, saved_plans, env)]
    ELSE IF Command(text, <<"r", "e", "v", "i", "e", "w">>)
    THEN [handler |-> "cmd_review", out |-> cmd_review(state, data, saved_plans)]
    ELSE IF Command(text, <<"i", "n", "t", "e", "r", "v", "i", "e", "w">>)
    THEN [handler |-> "cmd_interview", out |-> cmd_interview(state, data, saved_plans)]
    ELSE IF Command(text, <<"a", "s", "s", "e", "s", "s">>)
    THEN [handler |-> "cmd_assess", out |-> cmd_assess(state, data, saved_plans)]
    ELSE IF text # <<>> /\ text[1] # "/"
    THEN [handler |-> "general_message_handler",
          out |-> handle_general_message(text, state, data, saved_plans, env)]
    ELSE [handler |-> "unhandled", out |-> unhandled(state, data, saved_plans)]

\* What a turn did: the outcome of the last handler call, the handlers called, and the
\* calls and exceptions of the whole turn
TurnResult(handlers, out, middleware_calls, handler_calls, planner_calls, raised) ==
    [state |-> out.state, data |-> out.data, plans |-> out.plans, reply |-> out.reply,
     handlers |-> handlers, middleware_route_calls |-> middleware_calls,
     handler_route_calls |-> handler_calls, planner_calls |-> planner_calls,
     raised |-> raised, escaped |-> out.escaped]

\* the coordinator logic after a handler call that raised (agents_middleware.py:85-120):
\* coordinator.route, then the handler once more
routedAgain(text, env, first, again) ==
    TurnResult(<<first.handler, again.handler>>, again.out, 1,
               first.out.route_calls + again.out.route_calls,
               first.out.planner_calls + again.out.planner_calls,
               first.out.raised \cup llmRaised(text, env) \cup again.out.raised)

\* the handler called at once (agents_middleware.py:67-88)
calledDirectly(text, env, planner_kind, first) ==
    IF ~first.out.escaped
    THEN TurnResult(<<first.handler>>, first.out, 0, first.out.route_calls,
                    first.out.planner_calls, first.out.raised)
    ELSE routedAgain(text, env, first,
                     dispatch(text, first.out.state, first.out.data, first.out.plans, env,
                              planner_kind))

\* the coordinator logic (agents_middleware.py:90-120): coordinator.route, then the
\* handler
routedFirst(text, env, first) ==
    TurnResult(<<first.handler>>, first.out, 1, first.out.route_calls,
               first.out.planner_calls, llmRaised(text, env) \cup first.out.raised)

\* AgentsMiddleware.__call__ around the dispatcher.  In a state of planning_states the
\* handler is called at once; an exception that leaves it is caught by the outer except,
\* and the coordinator logic follows.  The coordinator logic calls coordinator.route and
\* then the handler.
AgentsMiddleware(text, state, data, saved_plans, env, planner_kind) ==
    IF state \in planning_states
    THEN calledDirectly(text, env, planner_kind,
                        dispatch(text, state, data, saved_plans, env, planner_kind))
    ELSE routedFirst(text, env, dispatch(text, state, data, saved_plans, env, planner_kind))

-----------------------------------------------------------------------------
(* The interview handlers (bot/handlers/interview.py).  A handler runs up to *)
(* an await that gives the event loop to other updates, so a turn is a       *)
(* sequence of steps and the turns of all users interleave.                  *)

in_interview == "InterviewStates:in_interview"

\* the users and the updates the dispatcher handles at a time
Users == {"u1", "u2"}
Slots == {1, 2}

\* user.current_track of every user ('backend' unless changed)
current_track == "backend"

\* the FSMContext of a user: the state and the data
Conversation(state, data) == [state |-> state, data |-> data]

\* state.clear()
Cleared == Conversation(NoState, NoData)

\* session_id=None of start_interview, and a missing interview_session_id
NoSessionId == <<>>

\* SessionRepository.create_session: the id of the new row, the primary key of the
\* table sessions (db/models.py:35)
create_session(rows) == <<rows + 1>>

\* the session id cmd_interview stores in the data and passes to start_interview
\* with every user's interview keyed by the track (C22 is tested against it)
interview_session_id_by_track(session_id, track) == <<track>>

\* the session id cmd_interview stores in the data and passes to start_interview:
\* session.id
interview_session_id(session_id, track) == session_id

\* start_interview: the key of the session in self.active_sessions
session_key(session_id, now, topic) ==
    IF session_id = NoSessionId THEN <<"interview", now, topic>> ELSE session_id

\* cmd_interview up to the announcement of the questions: the state is set and the
\* session id, the index 0 and the number of questions are stored
cmd_interview_begin(conversation, session_id) ==
    Conversation(in_interview,
                 update_data(update_data(update_data(conversation.data,
                                                     "interview_session_id", session_id),
                                         "current_question", 0),
                             "total_questions", QuestionLimit))

\* cmd_interview after start_interview returned: the questions are stored; without
\* questions, or when sending the first question raises, the state is cleared
cmd_interview_questions(conversation, interview_session, send_fails) ==
    IF send_fails THEN Cleared
    ELSE IF interview_session.questions # <<>>
    THEN Conversation(conversation.state,
                      update_data(conversation.data, "interview_questions",
                                  interview_session.questions))
    ELSE Cleared

\* process_interview_answer: not session_id or not questions
sessionMissing(data) ==
    \/ data_get(data, "interview_session_id", NoSessionId) = NoSessionId
    \/ data_get(data, "interview_questions", <<>>) = <<>>

\* the locals of a handler between its steps; pc is where it stands
Handling(handler, user, pc, session_id, current_idx, questions) ==
    [handler |-> handler, user |-> user, pc |-> pc, session_id |-> session_id,
     current_idx |-> current_idx, questions |-> questions]

NoHandling == Handling("none", "nobody", "idle", NoSessionId, 0, <<>>)

\* update_data(current_question=...) of process_interview_answer as it happened: the
\* session and the index the turn had read, the session and the index stored just
\* before, and the index stored
Write(user, session_id, read, stored_session, stored, wrote) ==
    [user |-> user, session_id |-> session_id, read |-> read,
     stored_session |-> stored_session, stored |-> stored, wrote |-> wrote]

NoWrite == Write("nobody", NoSessionId, 0, NoSessionId, 0, -1)

\* a slot that handles no update
free(turn) == turn.pc = "idle"

\* process_interview_answer that reads the stored index again before it stores the
\* next one (C25 is tested against it)
next_index_reread(turn, conversation) ==
    data_get(conversation.data, "current_question", 0) + 1

\* process_interview_answer: current_idx += 1, on the index read when the turn began
next_index(turn, conversation) == turn.current_idx + 1

\* process_interview_answer after the feedback: the next question is shown and its
\* index stored, or the interview ends and the state is cleared
answer_finish(turn, conversation, sessions) ==
    LET idx == next_index(turn, conversation)
    IN  IF idx < Len(turn.questions)
        THEN [conversation |->
                  Conversation(conversation.state,
                               update_data(conversation.data, "current_question", idx)),
              sessions |-> sessions, wrote |-> idx]
        ELSE [conversation |-> Cleared,
              sessions |-> end_interview(sessions, turn.session_id), wrote |-> -1]

-----------------------------------------------------------------------------
(* The entry and assessment handlers (bot/handlers/start.py and              *)
(* bot/handlers/assessment.py).                                              *)

waiting_level_track == "StartStates:waiting_level_track"
waiting_experience == "AssessmentStates:waiting_experience"
in_assessment == "AssessmentStates:in_assessment"

\* The states some handler carries as its filter: @router.message(state) and
\* dp.message.register(handler, state) in bot/handlers
state_filters ==
    {waiting_goal, waiting_for_level, waiting_for_hours, creating_plan,
     waiting_level_track, in_assessment, in_interview,
     "PlanningStates:waiting_goal", "PlanningStates:creating_plan",
     "ReviewStates:waiting_code", "ReviewStates:analyzing_code"}

\* bot.config.VALID_LEVELS, as the reply of cmd_begin lists them
VALID_LEVELS ==
    {<<"j", "u", "n", "i", "o", "r">>,
     <<"m", "i", "d", "d", "l", "e">>,
     <<"s", "e", "n", "i", "o", "r">>}

\* Texts sent after /begin
BeginText ==
    [level_track |->
         <<"j", "u", "n", "i", "o", "r", " ", "b", "a", "c", "k", "e", "n", "d">>,
     spaced |->
         <<" ", "M", "i", "d", "d", "l", "e", " ", " ", "P", "y", "t", "h", "o", "n", " ">>,
     level_only |->
         <<"j", "u", "n", "i", "o", "r">>,
     unknown_level |->
         <<"g", "u", "r", "u", " ", "b", "a", "c", "k", "e", "n", "d">>]

\* str.split(): the words between runs of whitespace
RECURSIVE split(_)
split(s) ==
    IF strip(s) = <<>> THEN <<>>
    ELSE LET t == strip(s)
             stops == {i \in 1..Len(t) : t[i] \in Whitespace}
         IN  IF stops = {} THEN <<t>>
             ELSE <<SubSeq(t, 1, (CHOOSE i \in stops : \A j \in stops : i <= j) - 1)>>
                      \o split(SubSeq(t, CHOOSE i \in stops : \A j \in stops : i <= j, Len(t)))

\* What a handler of these modules did: the conversation and the rows of the table
\* sessions afterwards, the reply, and whether an exception left the handler
Handled(conversation, rows, reply, escaped) ==
    [conversation |-> conversation, rows |-> rows, reply |-> reply, escaped |-> escaped]

\* start.py cmd_begin: the state is set, the data stays
start_cmd_begin(conversation, rows) ==
    Handled(Conversation(waiting_level_track, conversation.data), rows, "ask_level_track", FALSE)

\* assessment.py cmd_assess: the state is set, the data stays
assessment_cmd_assess(conversation, rows) ==
    Handled(Conversation(in_assessment, conversation.data), rows, "ask_knowledge", FALSE)

\* process_level_track: fewer than two words or a level that is not valid are answered
\* and change nothing; otherwise level and track are stored, a session row is created
\* (the database failing leaves the handler with level and track stored), its id is
\* stored and the state becomes waiting_experience
process_level_track(text, conversation, rows, db_fails) ==
    LET parts == split(lower(strip(text)))
        with_level == update_data(update_data(conversation.data, "level", parts[1]),
                                  "track", parts[2])
    IN  IF Len(parts) < 2
        THEN Handled(conversation, rows, "need_level_and_track", FALSE)
        ELSE IF parts[1] \notin VALID_LEVELS
        THEN Handled(conversation, rows, "level_not_supported", FALSE)
        ELSE IF db_fails
        THEN Handled(Conversation(conversation.state, with_level), rows, "none", TRUE)
        ELSE Handled(Conversation(waiting_experience,
                                  update_data(with_level, "session_id", create_session(rows))),
                     rows + 1, "level_track_set", FALSE)

\* process_assessment: a session row is created (the database failing leaves the
\* handler), the assessor is called, and the state is cleared whether the call
\* returned or raised
process_assessment(text, conversation, rows, db_fails, assess_raises) ==
    IF db_fails THEN Handled(conversation, rows, "none", TRUE)
    ELSE IF assess_raises THEN Handled(Cleared, rows + 1, "assessment_error", FALSE)
    ELSE Handled(Cleared, rows + 1, "assessment_result", FALSE)

\* a text that is no command, in the state of the conversation: the handler whose
\* state filter is that state runs; there is none for the other states
flow_input(text, conversation, rows, db_fails, assess_raises) ==
    IF conversation.state = waiting_level_track
    THEN process_level_track(text, conversation, rows, db_fails)
    ELSE IF conversation.state = in_assessment
    THEN process_assessment(text, conversation, rows, db_fails, assess_raises)
    ELSE Handled(conversation, rows, "none", FALSE)

-----------------------------------------------------------------------------
(* The specifications.  Each one moves its own part of the state and leaves *)
(* the other parts as they start.                                           *)

\* Bounds of the model
MaxGenerated == 4
MaxEvaluateCalls == 4
MaxPlans == 1

RouteIdle ==
    /\ user_text = <<>>
    /\ llm_response = [raises |-> FALSE, content |-> <<>>]
    /\ self_use_rag = FALSE
    /\ retrieve_context = [fails |-> FALSE, by_text |-> <<>>, by_keyword |-> <<>>]
    /\ route_result = NoResult

SessionIds == {"s1", "s2"}
NoSessions == [id \in {} |-> InterviewSession(0)]
NoScore == [score |-> 0, comment |-> "none"]

InterviewIdle ==
    /\ active_sessions = NoSessions
    /\ evaluate_calls = [id \in SessionIds |-> 0]
    /\ last_score = NoScore
    /\ ended = {}

\* The plan dialogue of the end-to-end scenario
PlanScript == <<Msg.plan, Msg.topic, Msg.level, Msg.hours, Msg.yes>>

NoTurn ==
    [text |-> <<>>, state_before |-> NoState, handlers |-> <<>>, reply |-> "none",
     middleware_route_calls |-> 0, handler_route_calls |-> 0, planner_calls |-> 0,
     raised |-> {}, escaped |-> FALSE, saved |-> 0]

ScriptOff == [pos |-> 0, states |-> <<>>, planner_calls |-> 0, saved |-> <<>>]

BotIdle ==
    /\ fsm_state = NoState
    /\ fsm_data = NoData
    /\ plans = <<>>
    /\ injected_planner = "None"
    /\ last = NoTurn
    /\ script = ScriptOff

\* no call of an agent operation is under way
NoResponse == [raises |-> FALSE, content |-> <<>>]
NoRetrieval == [fails |-> FALSE, chunks |-> <<>>, more |-> <<>>]
NoCall == AgentCall("none", NoResponse, NoResponse, FALSE, NoRetrieval)

AgentIdle ==
    /\ agent_call = NoCall
    /\ history = <<>>
    /\ agent_result = NoAgentResult

\* no update is being handled and no user has a conversation
FlowIdle ==
    /\ storage = [user \in Users |-> Cleared]
    /\ turns = [slot \in Slots |-> NoHandling]
    /\ next_session_id = 0
    /\ interview_of = [user \in Users |-> NoSessionId]
    /\ last_write = NoWrite

(* --- SpecRoute: one call of CoordinatorAgent.route on drawn inputs --- *)

InitRoute ==
    /\ user_text \in RouteMessages
    /\ llm_response \in LLMResponses
    /\ self_use_rag \in BOOLEAN
    /\ retrieve_context \in RetrievalOutcomes
    /\ route_result = NoResult
    /\ InterviewIdle
    /\ BotIdle
    /\ AgentIdle
    /\ FlowIdle

Route ==
    /\ route_result = NoResult
    /\ route_result' = route(user_text, llm_response, self_use_rag, retrieve_context)
    /\ UNCHANGED <<user_text, llm_response, self_use_rag, retrieve_context>>
    /\ UNCHANGED <<interviewVars, botVars, agentVars, flowVars>>

NextRoute == Route

SpecRoute == InitRoute /\ [][NextRoute]_vars

(* --- SpecInterview: the sessions of one InterviewerAgent --- *)

\* What the question generation of start_interview does
Generations ==
    {[fails |-> TRUE, count |-> 0]}
        \cup {[fails |-> FALSE, count |-> n] : n \in 0..MaxGenerated}

\* What the evaluation of an answer does
Scores == {20, 50, 90}
Evaluations ==
    {[fails |-> TRUE, score |-> 0]} \cup {[fails |-> FALSE, score |-> s] : s \in Scores}

InitInterview ==
    /\ InterviewIdle
    /\ RouteIdle
    /\ BotIdle
    /\ AgentIdle
    /\ FlowIdle

StartInterview ==
    \E session_id \in SessionIds, generation \in Generations :
        /\ active_sessions' = start_interview(active_sessions, session_id, generation)
        /\ evaluate_calls' = [evaluate_calls EXCEPT ![session_id] = 0]
        /\ ended' = ended \ {session_id}
        /\ UNCHANGED <<last_score, routeVars, botVars, agentVars, flowVars>>

EvaluateAnswer ==
    \E session_id \in SessionIds, evaluation \in Evaluations :
        /\ evaluate_calls[session_id] < MaxEvaluateCalls
        /\ LET r == evaluate_answer(active_sessions, session_id, evaluation)
           IN  /\ active_sessions' = r.sessions
               /\ last_score' = [score |-> r.score, comment |-> r.comment]
        /\ evaluate_calls' = [evaluate_calls EXCEPT ![session_id] = @ + 1]
        /\ UNCHANGED <<ended, routeVars, botVars, agentVars, flowVars>>

EndInterview ==
    \E session_id \in DOMAIN active_sessions :
        /\ active_sessions' = end_interview(active_sessions, session_id)
        /\ evaluate_calls' = [evaluate_calls EXCEPT ![session_id] = 0]
        /\ ended' = ended \cup {session_id}
        /\ UNCHANGED <<last_score, routeVars, botVars, agentVars, flowVars>>

\* What the generation of hints in get_hints does
Hintings ==
    {[fails |-> TRUE, list |-> FALSE], [fails |-> FALSE, list |-> FALSE],
     [fails |-> FALSE, list |-> TRUE]}

GetHints ==
    \E session_id \in SessionIds, has_hints \in BOOLEAN, hinting \in Hintings :
        /\ active_sessions' = get_hints(active_sessions, session_id, has_hints, hinting).sessions
        /\ UNCHANGED <<evaluate_calls, last_score, ended, routeVars, botVars, agentVars, flowVars>>

GetInterviewSummary ==
    \E session_id \in SessionIds :
        /\ get_interview_summary(active_sessions, session_id).status
               \in {"error", "active", "summary"}
        /\ UNCHANGED vars

NextInterview ==
    \/ StartInterview
    \/ EvaluateAnswer
    \/ GetHints
    \/ GetInterviewSummary
    \/ EndInterview

SpecInterview == InitInterview /\ [][NextInterview]_vars

(* --- SpecBot: the turns of one user's conversation --- *)

\* The messages the user sends
BotMessages ==
    {Msg.plan, Msg.topic, Msg.level, Msg.hours, Msg.yes, Msg.yesButton, Msg.noButton, Msg.no,
     Msg.maybe, Msg.review, Msg.interview, Msg.assess, Msg.progress}

\* What the collaborators do during a turn: the database works or fails, self.llm.chat
\* raises or answers
Environments ==
    {[db_fails |-> d, llm |-> l] :
        d \in BOOLEAN,
        l \in {[raises |-> TRUE, content |-> <<>>],
               [raises |-> FALSE, content |-> LLMText.short]}}

\* a turn in which no collaborator fails
healthy(env) == ~env.db_fails /\ ~env.llm.raises

\* The progress along PlanScript after a turn: the dialogue starts with /plan sent in
\* no state, advances with each next message of the script in a healthy turn and is
\* off otherwise; the states passed, the planner calls and the plans saved are kept
followScript(text, env, t) ==
    LET added == SubSeq(t.plans, Len(plans) + 1, Len(t.plans))
    IN  IF healthy(env) /\ fsm_state = NoState /\ text = PlanScript[1]
        THEN [pos |-> 1, states |-> <<NoState, t.state>>,
              planner_calls |-> t.planner_calls, saved |-> added]
        ELSE IF healthy(env) /\ script.pos \in 1..(Len(PlanScript) - 1)
                /\ text = PlanScript[script.pos + 1]
        THEN [pos |-> script.pos + 1, states |-> Append(script.states, t.state),
              planner_calls |-> script.planner_calls + t.planner_calls,
              saved |-> script.saved \o added]
        ELSE ScriptOff

InitBot ==
    /\ fsm_state = NoState
    /\ fsm_data = NoData
    /\ plans = <<>>
    /\ injected_planner \in DOMAIN planner_methods
    /\ last = NoTurn
    /\ script = ScriptOff
    /\ RouteIdle
    /\ InterviewIdle
    /\ AgentIdle
    /\ FlowIdle

Turn ==
    \E text \in BotMessages, env \in Environments :
        /\ Len(plans) < MaxPlans
        /\ \E t \in {AgentsMiddleware(text, fsm_state, fsm_data, plans, env, injected_planner)} :
               /\ fsm_state' = t.state
               /\ fsm_data' = t.data
               /\ plans' = t.plans
               /\ last' = [text |-> text, state_before |-> fsm_state,
                           handlers |-> t.handlers, reply |-> t.reply,
                           middleware_route_calls |-> t.middleware_route_calls,
                           handler_route_calls |-> t.handler_route_calls,
                           planner_calls |-> t.planner_calls,
                           raised |-> t.raised, escaped |-> t.escaped,
                           saved |-> Len(t.plans) - Len(plans)]
               /\ script' = followScript(text, env, t)
        /\ UNCHANGED <<injected_planner, routeVars, interviewVars, agentVars, flowVars>>

NextBot == Turn

SpecBot == InitBot /\ [][NextBot]_vars

(* --- SpecAgents: one call of an agent operation, or of an extraction step, --- *)
(* --- on drawn outcomes of the LLM call and of the retrieval                --- *)

\* Answers of the model that are JSON objects of the routing schema as they stand:
\* plain, with line breaks between the members, and with typographic quotes, an
\* apostrophe, or a comma before a closing brace or bracket inside a string value
ValidText ==
    [plain |->
        <<"{", "\"", "a", "g", "e", "n", "t", "\"", ":", " ", "\"", "P", "L", "A", "N", "N",
          "E", "R", "\"", ",", " ", "\"", "c", "o", "n", "t", "e", "x", "t", "\"", ":", " ",
          "\"", "S", "Q", "L", "\"", ",", " ", "\"", "c", "o", "n", "f", "i", "d", "e", "n",
          "c", "e", "\"", ":", " ", "0", ".", "8", "}">>,
     lines |->
        <<"{", "\"", "a", "g", "e", "n", "t", "\"", ":", " ", "\"", "P", "L", "A", "N", "N",
          "E", "R", "\"", ",", "nl", " ", "\"", "c", "o", "n", "t", "e", "x", "t", "\"", ":",
          " ", "\"", "S", "Q", "L", "\"", ",", "nl", " ", "\"", "c", "o", "n", "f", "i", "d",
          "e", "n", "c", "e", "\"", ":", " ", "0", ".", "8", "}">>,
     typographic |->
        <<"{", "\"", "a", "g", "e", "n", "t", "\"", ":", " ", "\"", "P", "L", "A", "N", "N",
          "E", "R", "\"", ",", " ", "\"", "c", "o", "n", "t", "e", "x", "t", "\"", ":", " ",
          "\"", "laquo", "S", "Q", "L", "raquo", "\"", ",", " ", "\"", "c", "o", "n", "f", "i",
          "d", "e", "n", "c", "e", "\"", ":", " ", "0", ".", "8", "}">>,
     apostrophe |->
        <<"{", "\"", "a", "g", "e", "n", "t", "\"", ":", " ", "\"", "P", "L", "A", "N", "N",
          "E", "R", "\"", ",", " ", "\"", "c", "o", "n", "t", "e", "x", "t", "\"", ":", " ",
          "\"", "d", "o", "n", "rsquo", "t", "\"", ",", " ", "\"", "c", "o", "n", "f", "i",
          "d", "e", "n", "c", "e", "\"", ":", " ", "0", ".", "8", "}">>,
     commaBrace |->
        <<"{", "\"", "a", "g", "e", "n", "t", "\"", ":", " ", "\"", "P", "L", "A", "N", "N",
          "E", "R", "\"", ",", " ", "\"", "c", "o", "n", "t", "e", "x", "t", "\"", ":", " ",
          "\"", "a", ",", "}", "\"", ",", " ", "\"", "c", "o", "n", "f", "i", "d", "e", "n",
          "c", "e", "\"", ":", " ", "0", ".", "8", "}">>,
     commaBracket |->
        <<"{", "\"", "a", "g", "e", "n", "t", "\"", ":", " ", "\"", "P", "L", "A", "N", "N",
          "E", "R", "\"", ",", " ", "\"", "c", "o", "n", "t", "e", "x", "t", "\"", ":", " ",
          "\"", "[", "1", ",", " ", "2", ",", " ", "]", "\"", ",", " ", "\"", "c", "o", "n",
          "f", "i", "d", "e", "n", "c", "e", "\"", ":", " ", "0", ".", "8", "}">>]

\* The texts the model answers an agent with
AgentTexts ==
    {AgentText[k] : k \in DOMAIN AgentText}
        \cup {LLMText.fenced, LLMText.prose, LLMText.notObject, LLMText.quoted,
              LLMText.brokenHigh}

\* What self.llm.chat does in the call: it raises, or answers with one of the texts
AgentResponses ==
    {[raises |-> TRUE, content |-> <<>>]}
        \cup {[raises |-> FALSE, content |-> t] : t \in AgentTexts}

\* What self.llm.chat did in the start_interview that made the session evaluate_answer
\* is called on
GenerationResponses ==
    {[raises |-> TRUE, content |-> <<>>]}
        \cup {[raises |-> FALSE, content |-> t] :
                 t \in {AgentText.questions, AgentText.questionsNumbered,
                        AgentText.questionsNone}}

\* What self.llm.chat does in a call of route
RouterResponses ==
    {[raises |-> TRUE, content |-> <<>>]}
        \cup {[raises |-> FALSE, content |-> t] : t \in {LLMText.valid, LLMText.prose}}

\* The messages of the calls of route: with a keyword, without one, a planning request
RouterMessages == {Msg.interviewText, Msg.unknown, Msg.planText}

\* The histories of the calls of route_with_history: none, then lists of one to three
\* entries with the bot message holding /plan or the learning message of the user at
\* each distance from the end, and lists with neither
HistoryEntry(role, content) == [role |-> role, content |-> content]
RouteHistories ==
    LET ask == HistoryEntry("bot", HistoryText.askTopic)
        learn == HistoryEntry("user", HistoryText.learn)
        hello == HistoryEntry("user", HistoryText.hello)
        done == HistoryEntry("bot", HistoryText.done)
    IN  {<<>>, <<ask>>, <<learn>>, <<hello>>, <<done>>, <<hello, done>>, <<ask, hello>>,
         <<learn, done>>, <<learn, hello>>, <<ask, hello, done>>, <<learn, done, done>>,
         <<hello, done, hello>>}

AgentCalls ==
    {AgentCall(op, llm, NoResponse, use_rag, retrieval) :
        op \in {"assess", "make_plan", "review", "start_interview"},
        llm \in AgentResponses, use_rag \in BOOLEAN, retrieval \in AgentRetrievals}
    \cup
    {AgentCall("evaluate_answer", llm, generation, use_rag, retrieval) :
        llm \in AgentResponses, generation \in GenerationResponses,
        use_rag \in BOOLEAN, retrieval \in AgentRetrievals}
    \cup
    {AgentCall(op, [raises |-> FALSE, content |-> t], NoResponse, FALSE, NoRetrieval) :
        op \in ExtractionOps, t \in AgentTexts}
    \cup
    {AgentCall("CoordinatorAgent.route", [raises |-> FALSE, content |-> ValidText[k]],
               NoResponse, FALSE, NoRetrieval) : k \in DOMAIN ValidText}
    \cup
    {AgentCall("route", llm, NoResponse, use_rag, NoRetrieval) :
        llm \in RouterResponses, use_rag \in BOOLEAN}

\* The calls of route_with_history
HistoryCalls ==
    {AgentCall("route_with_history", llm, NoResponse, use_rag, NoRetrieval) :
        llm \in RouterResponses, use_rag \in BOOLEAN}

\* the session id of the calls
CallSession == "s1"

\* an evaluate_answer call finds the session that start_interview made
InitAgents ==
    /\ agent_call \in AgentCalls
    /\ agent_result = NoAgentResult
    /\ active_sessions =
           IF agent_call.op = "evaluate_answer"
           THEN start_interview(NoSessions, CallSession,
                                generationOf(questionsGenerated(agent_call.generation)))
           ELSE NoSessions
    /\ evaluate_calls = [id \in SessionIds |-> 0]
    /\ last_score = NoScore
    /\ ended = {}
    /\ history = <<>>
    /\ IF agent_call.op = "route"
       THEN /\ user_text \in RouterMessages
            /\ llm_response = agent_call.llm
            /\ self_use_rag = selfUseRag("route", agent_call.use_rag)
            /\ retrieve_context \in RetrievalOutcomes
            /\ route_result = NoResult
       ELSE RouteIdle
    /\ BotIdle
    /\ FlowIdle

RouteCall ==
    /\ agent_call.op = "route"
    /\ agent_result = NoAgentResult
    /\ \E result \in {route(user_text, llm_response, self_use_rag, retrieve_context)} :
           /\ route_result' = result
           /\ agent_result' = AgentResult("RouteResult", FALSE, "none", result.path,
                                          result.rag_context_used)
    /\ UNCHANGED <<user_text, llm_response, self_use_rag, retrieve_context>>
    /\ UNCHANGED <<agent_call, history, interviewVars, botVars, flowVars>>

Assess ==
    /\ agent_call.op = "assess"
    /\ agent_result = NoAgentResult
    /\ agent_result' = assess(agent_call.llm, selfUseRag("assess", agent_call.use_rag),
                              agent_call.retrieval)
    /\ UNCHANGED <<agent_call, history, routeVars, interviewVars, botVars, flowVars>>

MakePlan ==
    /\ agent_call.op = "make_plan"
    /\ agent_result = NoAgentResult
    /\ agent_result' = make_plan(agent_call.llm, selfUseRag("make_plan", agent_call.use_rag),
                                 agent_call.retrieval)
    /\ UNCHANGED <<agent_call, history, routeVars, interviewVars, botVars, flowVars>>

Review ==
    /\ agent_call.op = "review"
    /\ agent_result = NoAgentResult
    /\ agent_result' = review(agent_call.llm, selfUseRag("review", agent_call.use_rag),
                              agent_call.retrieval)
    /\ UNCHANGED <<agent_call, history, routeVars, interviewVars, botVars, flowVars>>

StartInterviewCall ==
    /\ agent_call.op = "start_interview"
    /\ agent_result = NoAgentResult
    /\ \E generated \in {questionsGenerated(agent_call.llm)} :
           \E sessions \in {start_interview(active_sessions, CallSession, generationOf(generated))} :
               /\ active_sessions' = sessions
               /\ agent_result' =
                      startInterviewCall(sessions, CallSession, generated,
                          promptWithContext(
                              selfUseRag("start_interview", agent_call.use_rag),
                              _get_rag_context_for_questions(
                                  selfUseRag("start_interview", agent_call.use_rag),
                                  agent_call.retrieval)))
    /\ evaluate_calls' = [evaluate_calls EXCEPT ![CallSession] = 0]
    /\ ended' = ended \ {CallSession}
    /\ UNCHANGED <<agent_call, history, last_score, routeVars, botVars, flowVars>>

EvaluateAnswerCall ==
    /\ agent_call.op = "evaluate_answer"
    /\ agent_result = NoAgentResult
    /\ \E evaluation \in {scoreEvaluated(agent_call.llm)} :
           \E returned \in {evaluateAnswerCall(
                               sessionQuestions(questionsGenerated(agent_call.generation)),
                               active_sessions, CallSession, evaluation,
                               selfUseRag("evaluate_answer", agent_call.use_rag),
                               agent_call.retrieval)} :
               /\ agent_result' = returned
               /\ IF returned.raised
                  THEN UNCHANGED <<active_sessions, last_score>>
                  ELSE \E r \in {evaluate_answer(active_sessions, CallSession, evaluation)} :
                           /\ active_sessions' = r.sessions
                           /\ last_score' = [score |-> r.score, comment |-> r.comment]
    /\ evaluate_calls' = [evaluate_calls EXCEPT ![CallSession] = @ + 1]
    /\ UNCHANGED <<agent_call, history, ended, routeVars, botVars, flowVars>>

ExtractJson ==
    /\ agent_call.op \in ExtractionOps
    /\ agent_result = NoAgentResult
    /\ agent_result' = extractionResult(extraction(agent_call.op, agent_call.llm.content))
    /\ UNCHANGED <<agent_call, history, routeVars, interviewVars, botVars, flowVars>>

NextAgents ==
    \/ RouteCall
    \/ Assess
    \/ MakePlan
    \/ Review
    \/ StartInterviewCall
    \/ EvaluateAnswerCall
    \/ ExtractJson

SpecAgents == InitAgents /\ [][NextAgents]_vars

(* --- SpecHistory: one call of CoordinatorAgent.route_with_history --- *)

InitHistory ==
    /\ agent_call \in HistoryCalls
    /\ agent_result = NoAgentResult
    /\ history \in RouteHistories
    /\ user_text \in RouterMessages
    /\ llm_response = agent_call.llm
    /\ self_use_rag = selfUseRag("route", agent_call.use_rag)
    /\ retrieve_context \in RetrievalOutcomes
    /\ route_result = NoResult
    /\ InterviewIdle
    /\ BotIdle
    /\ FlowIdle

RouteWithHistory ==
    /\ agent_call.op = "route_with_history"
    /\ agent_result = NoAgentResult
    /\ \E routed \in {route_with_history(user_text, history, llm_response, self_use_rag,
                                          retrieve_context)} :
           /\ route_result' = IF routed.raised THEN route_result ELSE routed.result
           /\ agent_result' = AgentResult(IF routed.raised THEN "none" ELSE "RouteResult",
                                          routed.raised, routed.error, routed.result.path,
                                          routed.result.rag_context_used)
    /\ UNCHANGED <<user_text, llm_response, self_use_rag, retrieve_context>>
    /\ UNCHANGED <<agent_call, history, interviewVars, botVars, flowVars>>

NextHistory == RouteWithHistory

SpecHistory == InitHistory /\ [][NextHistory]_vars

(* --- SpecFlow: the interview handlers serving two users --- *)

MaxFlowSessions == 2

\* the second of the clock at a call of start_interview
Seconds == {0, 1}

\* What the question generation and the evaluation do in the flow
FlowGenerations ==
    {[fails |-> TRUE, count |-> 0], [fails |-> FALSE, count |-> 0],
     [fails |-> FALSE, count |-> 2]}
FlowEvaluations == {[fails |-> TRUE, score |-> 0], [fails |-> FALSE, score |-> 90]}

InitFlow ==
    /\ FlowIdle
    /\ RouteIdle
    /\ InterviewIdle
    /\ BotIdle
    /\ AgentIdle

\* cmd_interview, l.24-47: the row, the state, the data
CmdInterviewBegin ==
    \E slot \in Slots, user \in Users :
        /\ free(turns[slot])
        /\ next_session_id < MaxFlowSessions
        /\ \E id \in {interview_session_id(create_session(next_session_id), current_track)} :
               /\ storage' = [storage EXCEPT ![user] = cmd_interview_begin(@, id)]
               /\ turns' = [turns EXCEPT ![slot] =
                               Handling("cmd_interview", user, "generating", id, 0, <<>>)]
        /\ next_session_id' = next_session_id + 1
        /\ UNCHANGED <<interview_of, last_write>>
        /\ UNCHANGED <<routeVars, interviewVars, botVars, agentVars>>

\* cmd_interview, l.49-83: start_interview, the first question, the questions stored
CmdInterviewQuestions ==
    \E slot \in Slots, generation \in FlowGenerations, now \in Seconds,
       send_fails \in BOOLEAN :
        /\ turns[slot].handler = "cmd_interview" /\ turns[slot].pc = "generating"
        /\ \E key \in {session_key(turns[slot].session_id, now, current_track)} :
               /\ active_sessions' = start_interview(active_sessions, key, generation)
               /\ interview_of' = [interview_of EXCEPT ![turns[slot].user] = key]
               /\ storage' = [storage EXCEPT ![turns[slot].user] =
                                 cmd_interview_questions(@, active_sessions'[key], send_fails)]
        /\ turns' = [turns EXCEPT ![slot] = NoHandling]
        /\ UNCHANGED <<next_session_id, last_write, evaluate_calls, last_score, ended>>
        /\ UNCHANGED <<routeVars, botVars, agentVars>>

\* process_interview_answer, l.96-109: the data is read; without a session id or
\* without questions the state is cleared and the turn is over
AnswerRead ==
    \E slot \in Slots, user \in Users :
        /\ free(turns[slot])
        /\ storage[user].state = in_interview
        /\ IF sessionMissing(storage[user].data)
           THEN /\ storage' = [storage EXCEPT ![user] = Cleared]
                /\ UNCHANGED turns
           ELSE /\ turns' = [turns EXCEPT ![slot] =
                                Handling("process_interview_answer", user, "evaluating",
                                         storage[user].data["interview_session_id"],
                                         data_get(storage[user].data, "current_question", 0),
                                         storage[user].data["interview_questions"])]
                /\ UNCHANGED storage
        /\ UNCHANGED <<next_session_id, interview_of, last_write>>
        /\ UNCHANGED <<routeVars, interviewVars, botVars, agentVars>>

\* process_interview_answer, l.111-122: evaluate_answer, then the feedback is sent;
\* when sending raises the state is cleared (l.160-163)
AnswerEvaluate ==
    \E slot \in Slots, evaluation \in FlowEvaluations, send_fails \in BOOLEAN :
        /\ turns[slot].handler = "process_interview_answer"
        /\ turns[slot].pc = "evaluating"
        /\ \E r \in {evaluate_answer(active_sessions, turns[slot].session_id, evaluation)} :
               /\ active_sessions' = r.sessions
               /\ last_score' = [score |-> r.score, comment |-> r.comment]
        /\ IF send_fails
           THEN /\ storage' = [storage EXCEPT ![turns[slot].user] = Cleared]
                /\ turns' = [turns EXCEPT ![slot] = NoHandling]
           ELSE /\ turns' = [turns EXCEPT ![slot].pc = "advancing"]
                /\ UNCHANGED storage
        /\ UNCHANGED <<next_session_id, interview_of, last_write, evaluate_calls, ended>>
        /\ UNCHANGED <<routeVars, botVars, agentVars>>

\* process_interview_answer, l.125-158: the next question and its index, or the end
AnswerFinish ==
    \E slot \in Slots :
        /\ turns[slot].handler = "process_interview_answer"
        /\ turns[slot].pc = "advancing"
        /\ \E r \in {answer_finish(turns[slot], storage[turns[slot].user], active_sessions)} :
               /\ storage' = [storage EXCEPT ![turns[slot].user] = r.conversation]
               /\ active_sessions' = r.sessions
               /\ last_write' =
                      IF r.wrote < 0 THEN last_write
                      ELSE Write(turns[slot].user, turns[slot].session_id,
                                 turns[slot].current_idx,
                                 data_get(storage[turns[slot].user].data,
                                          "interview_session_id", NoSessionId),
                                 data_get(storage[turns[slot].user].data,
                                          "current_question", 0),
                                 r.wrote)
        /\ turns' = [turns EXCEPT ![slot] = NoHandling]
        /\ UNCHANGED <<next_session_id, interview_of, evaluate_calls, last_score, ended>>
        /\ UNCHANGED <<routeVars, botVars, agentVars>>

NextFlow ==
    \/ CmdInterviewBegin
    \/ CmdInterviewQuestions
    \/ AnswerRead
    \/ AnswerEvaluate
    \/ AnswerFinish

SpecFlow == InitFlow /\ [][NextFlow]_vars

(* --- SpecBegin: /begin, /assess and the texts that follow, for two users --- *)

BeginTexts == {BeginText[k] : k \in DOMAIN BeginText}

InitBegin ==
    /\ FlowIdle
    /\ RouteIdle
    /\ InterviewIdle
    /\ BotIdle
    /\ AgentIdle

Begin ==
    \E user \in Users :
        \E done \in {start_cmd_begin(storage[user], next_session_id)} :
            /\ storage' = [storage EXCEPT ![user] = done.conversation]
            /\ UNCHANGED <<next_session_id, turns, interview_of, last_write>>
            /\ UNCHANGED <<routeVars, interviewVars, botVars, agentVars>>

AssessCommand ==
    \E user \in Users :
        \E done \in {assessment_cmd_assess(storage[user], next_session_id)} :
            /\ storage' = [storage EXCEPT ![user] = done.conversation]
            /\ UNCHANGED <<next_session_id, turns, interview_of, last_write>>
            /\ UNCHANGED <<routeVars, interviewVars, botVars, agentVars>>

FlowInput ==
    \E user \in Users, text \in BeginTexts, db_fails \in BOOLEAN, assess_raises \in BOOLEAN :
        /\ next_session_id < MaxFlowSessions
        /\ \E done \in {flow_input(text, storage[user], next_session_id, db_fails,
                                   assess_raises)} :
               /\ storage' = [storage EXCEPT ![user] = done.conversation]
               /\ next_session_id' = done.rows
        /\ UNCHANGED <<turns, interview_of, last_write>>
        /\ UNCHANGED <<routeVars, interviewVars, botVars, agentVars>>

NextBegin ==
    \/ Begin
    \/ AssessCommand
    \/ FlowInput

SpecBegin == InitBegin /\ [][NextBegin]_vars

-----------------------------------------------------------------------------
(* The properties *)

\* C1: while the conversation state is not Idle, no free-text message makes
\* CoordinatorAgent.route run, neither in the agents middleware nor in a handler; this
\* for every state of a flow, the level-selection state of the plan flow included.
C1_NoRouteInsideFlow ==
    (last # NoTurn /\ last.state_before # NoState /\ last.text[1] # "/")
        => (last.middleware_route_calls = 0 /\ last.handler_route_calls = 0)

\* C2: from Idle, the messages /plan, topic, level, hours, yes take the state through
\* Idle, waiting_goal, waiting_for_level, waiting_for_hours, creating_plan, Idle, with
\* exactly one call of the planner and exactly one plan persisted, whose topic is the
\* second message.
C2_PlanScenario ==
    script.pos = Len(PlanScript)
        => /\ script.states = <<NoState, waiting_goal, waiting_for_level, waiting_for_hours,
                                creating_plan, NoState>>
           /\ script.planner_calls = 1
           /\ Len(script.saved) = 1
           /\ script.saved[1].topic = Msg.topic

\* C3: for every message whose lower-cased text starts with a planning trigger, route
\* returns the agent PLANNER with a confidence of at least 0.9, and self.llm.chat is
\* called zero times during the call.
C3_PlanningShortCircuit ==
    (/\ route_result # NoResult
     /\ \E t \in DOMAIN PlanningTriggers : startswith(lower(user_text), PlanningTriggers[t]))
        => (/\ route_result.agent = PLANNER
            /\ route_result.confidence >= 90
            /\ route_result.llm_calls = 0)

\* a message that starts with a capitalised Cyrillic trigger has been routed while the
\* model was able to answer
C3_Witness ==
    /\ route_result # NoResult
    /\ user_text = Msg.planText
    /\ ~llm_response.raises
    /\ route_result.agent = PLANNER
    /\ route_result.llm_calls = 0

\* C4: when self.llm.chat raises, route returns what the keyword classifier says of the
\* message: the agent of the first keyword-table entry with a keyword in the lower-cased
\* message, ASK_CLARIFICATION when no keyword matches.
C4_FailingModelUsesKeywords ==
    (route_result # NoResult /\ llm_response.raises /\ ~isPlanningRequest(user_text))
        => route_result.agent = _fallback_agent_detection(user_text)

\* C5: every RouteResult that route returns has a confidence between 0 and 1, on every
\* return path and whatever confidence the model text held.
C5_ConfidenceInUnitInterval ==
    route_result # NoResult
        => (0 <= route_result.confidence /\ route_result.confidence <= 100)

\* C6: a session started with N questions is terminal after exactly N calls of
\* evaluate_answer: current_question_index = N, get_current_question returns none and
\* get_interview_summary yields a computed summary, not the status active.
C6_TerminalAfterNCalls ==
    \A session_id \in DOMAIN active_sessions :
        LET session == active_sessions[session_id]
            N == Len(session.questions)
        IN  (N >= 1 /\ evaluate_calls[session_id] = N)
                => /\ session.current_question_index = N
                   /\ get_current_question(active_sessions, session_id) = NoQuestion
                   /\ get_interview_summary(active_sessions, session_id).status = "summary"

\* C7: in creating_plan a negative reply, the text of the do-not-save button included,
\* takes the state to Idle and persists no plan.
C7_NegativeReplyDiscards ==
    (last.state_before = creating_plan /\ last.text \in {Msg.no, Msg.noButton})
        => (fsm_state = NoState /\ last.saved = 0)

\* C8: in creating_plan a reply that is neither affirmative nor negative leaves the
\* state creating_plan with the pending plan data, persists nothing and asks again for
\* yes or no.
C8_OtherReplyAsksAgain ==
    (last.state_before = creating_plan /\ last.text = Msg.maybe)
        => /\ fsm_state = creating_plan
           /\ "topic" \in DOMAIN fsm_data
           /\ last.saved = 0
           /\ last.reply = "ask_yes_no"

\* C9: a top-level command (/plan, /interview, /review, /assess) is handled as a command
\* in every state, not taken as input of the active flow, and afterwards the state is
\* the first state of the command's own flow, the state of the previous flow cleared.
C9_CommandsLeaveTheFlow ==
    LET handler == IF last.text = Msg.plan THEN "cmd_plan"
                   ELSE IF last.text = Msg.interview THEN "cmd_interview"
                   ELSE IF last.text = Msg.review THEN "cmd_review"
                   ELSE "cmd_assess"
    IN  last.text \in {Msg.plan, Msg.interview, Msg.review, Msg.assess}
            => /\ last.handlers = <<handler>>
               /\ IF last.text = Msg.plan THEN fsm_state = waiting_goal
                  ELSE fsm_state \notin {waiting_goal, waiting_for_level, waiting_for_hours,
                                         creating_plan}

\* C10: whatever the state, after a turn in which an exception was raised (in routing, in
\* an agent or in the persistence) the conversation state is Idle.
C10_ExceptionResetsState ==
    last.raised # {} => fsm_state = NoState

\* C11: every turn sends at least one reply to the user and no exception leaves the
\* handler chain, in every state and whatever fails (the model, the planner, the
\* database).
C11_EveryTurnReplies ==
    last # NoTurn => (last.reply # "none" /\ ~last.escaped)

\* C12: the agent of every RouteResult that route returns is one of INTERVIEWER,
\* ASSESSOR, PLANNER, REVIEWER, ASK_CLARIFICATION, for every model answer and message.
C12_AgentInCatalogue ==
    route_result # NoResult
        => route_result.agent \in {INTERVIEWER, ASSESSOR, PLANNER, REVIEWER, ASK_CLARIFICATION}

\* C13: when self.llm.chat answers but its text holds no parseable JSON and no agent
\* field can be recovered from it, route returns what the keyword classifier says of
\* the message, ASK_CLARIFICATION when no keyword matches.
C13_UnparseableAnswerUsesKeywords ==
    (/\ route_result # NoResult
     /\ ~isPlanningRequest(user_text)
     /\ ~llm_response.raises
     /\ noAgentRecoverable(llm_response.content))
        => route_result.agent = _fallback_agent_detection(user_text)

\* C14: in UserStates.waiting_for_hours, when the call of the planner raises, the turn
\* ends in state None (never in creating_plan) and the error reply is sent
C14_PlannerFailureResetsState ==
    (/\ last # NoTurn
     /\ last.state_before = waiting_for_hours
     /\ "planner" \in last.raised)
        => (fsm_state = NoState /\ last.reply = "plan_error" /\ ~last.escaped)

\* a turn in waiting_for_hours during which the planner call raised
C14_Witness ==
    /\ last # NoTurn
    /\ last.state_before = waiting_for_hours
    /\ "process_plan_time" \in {last.handlers[i] : i \in DOMAIN last.handlers}
    /\ "planner" \in last.raised
    /\ fsm_state = NoState

\* C16: every session that start_interview made holds exactly QuestionLimit (3)
\* questions, whatever the question generation did, at every later moment
C16_ThreeQuestionsAlways ==
    \A id \in DOMAIN active_sessions :
        Len(active_sessions[id].questions) = QuestionLimit

\* C15: in every active session 0 <= current_question_index <= len(questions), after
\* any sequence of start_interview, evaluate_answer, get_hints, get_interview_summary
\* (and end_interview) calls, whatever the generation and the evaluations did
C15_IndexWithinQuestions ==
    \A id \in DOMAIN active_sessions :
        /\ 0 <= active_sessions[id].current_question_index
        /\ active_sessions[id].current_question_index <= Len(active_sessions[id].questions)

\* a session at its last index on which evaluate_answer was called once more
C15_Witness ==
    \E id \in DOMAIN active_sessions :
        /\ Len(active_sessions[id].questions) > 0
        /\ active_sessions[id].current_question_index = Len(active_sessions[id].questions)
        /\ evaluate_calls[id] > Len(active_sessions[id].questions)
        /\ last_score.comment = "all_done"

\* C17: a session id that end_interview was called on is no longer held:
\* get_current_question gives None for it, evaluate_answer gives the 'session not
\* found' score 0 and leaves the sessions as they are
C17_EndedSessionIsGone ==
    \A s \in ended :
        /\ s \notin DOMAIN active_sessions
        /\ get_current_question(active_sessions, s) = NoQuestion
        /\ \A evaluation \in Evaluations :
               evaluate_answer(active_sessions, s, evaluation)
                   = [sessions |-> active_sessions, score |-> MissingScore,
                      comment |-> "not_found"]

\* evaluate_answer was called on an ended session and answered 'not found'
C17_Witness ==
    \E s \in ended :
        /\ evaluate_calls[s] > 0
        /\ last_score = [score |-> MissingScore, comment |-> "not_found"]
        /\ s \notin DOMAIN active_sessions

\* the snippets the retrieval returned for the call: none with retrieval off or
\* failing; for route the ones of the message or of its keywords, for evaluate_answer
\* the ones of the concepts of the current question and of the question, for assess
\* and review those of both queries
snippetsReturned(call) ==
    IF ~selfUseRag(call.op, call.use_rag) THEN <<>>
    ELSE IF call.op = "route"
    THEN IF retrieve_context.fails THEN <<>> ELSE routingChunks(user_text, retrieve_context)
    ELSE IF call.retrieval.fails THEN <<>>
    ELSE IF call.op \in {"make_plan", "start_interview"} THEN call.retrieval.chunks
    ELSE IF call.op = "evaluate_answer"
    THEN evaluationChunks(
             sessionQuestions(questionsGenerated(call.generation))[1].expected_concepts,
             call.retrieval)
    ELSE call.retrieval.chunks \o call.retrieval.more

\* C18: every call of assess, make_plan, review, start_interview and evaluate_answer
\* returns its result record and does not raise, whatever the LLM call did (it raised,
\* answered without JSON, with JSON of a wrong shape or with missing fields, or as
\* asked)
C18_AgentCallsReturnRecords ==
    (agent_result # NoAgentResult /\ agent_call.op \in DOMAIN AgentOps)
        => (~agent_result.raised /\ agent_result.record = AgentOps[agent_call.op])

\* an evaluate_answer call whose LLM call raised has returned an InterviewScore
C18_Witness ==
    /\ agent_result # NoAgentResult
    /\ agent_call.op = "evaluate_answer"
    /\ agent_call.llm.raises
    /\ ~agent_result.raised
    /\ agent_result.record = "InterviewScore"

C20_ExtractionIsTotal ==
    (agent_result # NoAgentResult /\ agent_call.op \in ExtractionOps)
        => (~agent_result.raised /\ agent_result.record = "dict")

\* C24: an evaluate_answer whose evaluation fails on a session with a current question
\* (the except branch, comment "error") returns the score 50 and leaves every session
\* as it was: no score appended, current_question_index not advanced
C24_FailedEvaluationKeepsSession ==
    [][((\E id \in SessionIds : evaluate_calls'[id] = evaluate_calls[id] + 1)
            /\ last_score'.comment = "error")
        => (active_sessions' = active_sessions /\ last_score'.score = 50)]_vars

\* a session on its second or a later question, not at its end, on which more
\* evaluate_answer calls were made than scores are stored, the last one failing
C24_Witness ==
    \E id \in DOMAIN active_sessions :
        /\ last_score.comment = "error"
        /\ active_sessions[id].current_question_index >= 1
        /\ active_sessions[id].current_question_index < Len(active_sessions[id].questions)
        /\ evaluate_calls[id] > Len(active_sessions[id].scores)
        /\ DOMAIN active_sessions = {id}

\* C27: AgentsMiddleware calls the downstream handler at most once in a turn, in every
\* state and also when the handler raises
C27_HandlerCalledAtMostOnce == Len(last.handlers) <= 1

\* C28: in the state creating_plan the flow data holds the plan a planner call of the
\* flow produced, and every persisted plan record holds planner-generated content
C28_CreatingPlanHoldsPlan ==
    /\ fsm_state = creating_plan
           => ("plan_content" \in DOMAIN fsm_data /\ fsm_data["plan_content"] # <<>>)
    /\ \A i \in DOMAIN plans : plans[i].content # <<>>

\* a parsed text that is a JSON object of the routing schema (a str agent, a number
\* as confidence, a str context)
validRouteDecision(parsed) ==
    /\ parsed.ok
    /\ parsed.val.k = "obj"
    /\ dictHas(parsed.pairs, KeyAgent) /\ agentOf(parsed.pairs).ok
    /\ dictHas(parsed.pairs, KeyConfidence) /\ confidenceOf(parsed.pairs, 0).ok
    /\ fieldsValid(parsed.pairs)

\* the same value with the same members
sameRecord(extracted, parsed) ==
    ~extracted.raised /\ extracted.val = parsed.val /\ extracted.pairs = parsed.pairs

\* C23: for an answer that is already a JSON object of the routing schema, the record
\* the router parses after _clean_response and _fix_json_problems equals the record
\* parsed from the answer as it stands
C23_RepairKeepsValidJson ==
    (/\ agent_result # NoAgentResult
     /\ agent_call.op = "CoordinatorAgent.route"
     /\ validRouteDecision(json_loads(agent_call.llm.content)))
        => sameRecord(routerExtract(agent_call.llm.content),
                      json_loads(agent_call.llm.content))

\* C30: route_with_history returns a RouteResult and raises nothing for every history;
\* with an empty history the result is that of route; when one of the last two entries
\* is a bot message with '/plan', or the most recent user entry holds a learning word,
\* the result is PLANNER with confidence 0.9
C30_RouteWithHistoryIsTotal ==
    (agent_result # NoAgentResult /\ agent_call.op = "route_with_history")
        => /\ ~agent_result.raised
           /\ agent_result.record = "RouteResult"
           /\ history = <<>>
                  => route_result = route(user_text, llm_response, self_use_rag,
                                          retrieve_context)
           /\ (planAsked(history) \/ learningAsked(history))
                  => (route_result.agent = PLANNER /\ route_result.confidence = 90)

\* C21: a turn whose state-specific handler finds a required field missing from the
\* flow data (here process_save_plan_choice in creating_plan with no stored plan)
\* aborts the flow: the state becomes Idle, the user gets a reply and nothing is
\* persisted in that turn
C21_MissingDataAbortsFlow ==
    [][(/\ fsm_state = creating_plan
        /\ "plan_content" \notin DOMAIN fsm_data
        /\ last' # last
        /\ last'.handlers # <<>>
        /\ last'.handlers[Len(last'.handlers)] = "process_save_plan_choice")
           => (fsm_state' = NoState /\ plans' = plans /\ last'.reply # "none")]_vars

\* the InterviewSession the agent holds for the interview of a user
NoInterview == [questions |-> <<>>, current_question_index |-> -1, scores |-> <<>>]
sessionOf(user) ==
    IF interview_of[user] \in DOMAIN active_sessions
    THEN active_sessions[interview_of[user]] ELSE NoInterview

\* the user whose turn a step of the slot belongs to
actor(slot) == IF free(turns[slot]) THEN turns'[slot].user ELSE turns[slot].user

\* C22: whatever the interleaving of the turns of two users, a step of a turn of one
\* user leaves the other user's conversation state and flow data (the stored question
\* index and the pending data) and the other user's InterviewSession (the questions,
\* the index, the scores) as they are; users starting interviews at the same time
\* through the one InterviewerAgent included
C22_UsersDoNotInterfere ==
    [][\A slot \in Slots, other \in Users :
          (turns'[slot] # turns[slot] /\ actor(slot) # other)
              => /\ storage'[other] = storage[other]
                 /\ interview_of'[other] = interview_of[other]
                 /\ sessionOf(other)' = sessionOf(other)]_vars

\* two users have started interviews while both starts were under way, answers of
\* both are being handled at once, and each session holds a score
C22_Witness ==
    /\ turns[1].user = "u1" /\ turns[2].user = "u2"
    /\ turns[1].pc = "advancing" /\ turns[2].pc = "evaluating"
    /\ interview_of["u1"] # interview_of["u2"]
    /\ sessionOf("u1").scores # <<>> /\ sessionOf("u2").scores # <<>>

\* C26: for a user in the interview state with no turn under way, the index the
\* handler stored (current_question) is the current_question_index of the user's
\* InterviewSession
C26_HandlerIndexIsAgentIndex ==
    \A user \in Users :
        (/\ storage[user].state = in_interview
         /\ ~sessionMissing(storage[user].data)
         /\ \A slot \in Slots : turns[slot].user # user)
            => /\ storage[user].data["interview_session_id"] \in DOMAIN active_sessions
               /\ storage[user].data["current_question"]
                      = active_sessions[storage[user].data["interview_session_id"]]
                            .current_question_index

\* C25: the turns of a user are not serialized: a turn stores the index it read
\* when it began plus one, whatever was stored in between, so that two turns under
\* way at once that read the same index store the same next index
C25_TurnsRaceOnTheIndex ==
    /\ last_write.wrote >= 0 => last_write.wrote = last_write.read + 1
    /\ \A a, b \in Slots :
           (/\ turns[a].handler = "process_interview_answer"
            /\ turns[b].handler = "process_interview_answer"
            /\ turns[a].user = turns[b].user
            /\ turns[a].current_idx = turns[b].current_idx)
               => next_index(turns[a], storage[turns[a].user])
                      = next_index(turns[b], storage[turns[b].user])

\* a turn has stored the index that another turn of the same user and the same
\* interview, which had read the same index, had stored before it
C25_Witness ==
    /\ last_write.wrote >= 1
    /\ last_write.stored = last_write.wrote
    /\ last_write.stored_session = last_write.session_id

\* C29: every conversation state a handler sets is the state filter of a handler, so
\* that a text that is no command is taken by a state-specific handler in every
\* state other than Idle (the state after the level-and-track step of /begin too)
C29_EveryStateHasHandler ==
    \A user \in Users :
        storage[user].state # NoState => storage[user].state \in state_filters

====
